---- MODULE Spec2Model ----
(***************************************************************************)
(* The proof walker of the Alethe proof checker: ProofChecker::check and   *)
(* ProofChecker::check_step of alethe-proof-checker/src/checker/mod.rs,    *)
(* with the context stack built by ProofChecker::build_context.            *)
(*                                                                         *)
(* Terms are S-expressions: a sequence <<head, arg1, ..., argn>> whose     *)
(* head is a string and whose arguments are terms; <<"x">> is the symbol   *)
(* x.  Indices into Rust slices are 0-based in the source; the model keeps *)
(* the 0-based cursor and reads commands[i + 1].                           *)
(***************************************************************************)
EXTENDS Integers, Sequences, FiniteSets, TLC

VARIABLES
    proof,           \* the Proof passed to check: premises and commands
    config,          \* ProofChecker.config
    context,         \* ProofChecker.context, the stack of Context values
    commands_stack,  \* the local commands_stack of check: frames <<i, commands>>
    result,          \* what check returned, once it has returned
    rule_args,       \* the RuleArgs of the latest rule call, <<>> before the first
    premises_read,   \* the `premises` field of the step of that call
    visited,         \* history: the index of every command a loop iteration matched
    checks,          \* history: the number of calls of check on this ProofChecker
    step_calls,      \* history: the calls of check_step of this call of check
    anchors,         \* build_context alone: the assignment arguments of nested anchors
    built,           \* build_context alone: the contexts built for them so far
    cp_step,         \* a cutting-planes rule alone: the step it is given
    cp_result,       \* a cutting-planes rule alone: what it returned
    pool,            \* the term pool alone: the terms it stores, by handle
    handles,         \* history: every term given to add_term, with the handle returned
    printer_proof,   \* the printer alone: the Proof passed to write_proof
    printer_stack,   \* the local commands_stack of write_proof
    written,         \* the lines written to `inner`: a step's index or an empty line
    returned         \* whether write_proof has returned

walker_vars == <<proof, config, context, commands_stack, result, rule_args,
                 premises_read, visited, checks, step_calls>>
context_vars == <<anchors, built>>
cp_vars == <<cp_step, cp_result>>
pool_vars == <<pool, handles>>
printer_vars == <<printer_proof, printer_stack, written, returned>>

vars == <<walker_vars, context_vars, cp_vars, pool_vars, printer_vars>>

(***************************************************************************)
(* Bounds of the explored inputs.                                          *)
(***************************************************************************)
\* the largest number of commands in a proof, counted over all nesting levels
MaxCommands == 4
\* the deepest nesting of subproofs in a proof
MaxDepth == 2

(***************************************************************************)
(* Terms.                                                                  *)
(***************************************************************************)
Sym(name) == <<name>>

EqAB == <<"=", Sym("a"), Sym("b")>>
EqBA == <<"=", Sym("b"), Sym("a")>>
EqAC == <<"=", Sym("a"), Sym("c")>>

\* the operators whose arguments eq_modulo_reordering compares as multisets
CommutativeOps == {"=", "and", "or", "distinct", "+", "*"}

\* the bijections of 1..n onto itself
Perms(n) == {p \in [1..n -> 1..n] : \A i, j \in 1..n : p[i] = p[j] => i = j}

RECURSIVE eq_modulo_reordering(_, _)
eq_modulo_reordering(a, b) ==
    /\ Len(a) = Len(b)
    /\ a[1] = b[1]
    /\ IF a[1] \in CommutativeOps
       THEN \E p \in Perms(Len(a) - 1) :
                \A i \in 1..(Len(a) - 1) : eq_modulo_reordering(a[i + 1], b[p[i] + 1])
       ELSE \A i \in 2..Len(a) : eq_modulo_reordering(a[i], b[i])

\* TermPool::apply_substitutions on terms without binders: every occurrence of
\* a term of the map's domain is replaced by its image, in one pass
RECURSIVE apply_substitutions(_, _)
apply_substitutions(term, map) ==
    IF term \in DOMAIN map
    THEN map[term]
    ELSE [i \in 1..Len(term) |->
            IF i = 1 THEN term[1] ELSE apply_substitutions(term[i], map)]

(***************************************************************************)
(* Contexts.                                                               *)
(***************************************************************************)
\* HashMap::insert: the entry for k is added or overwritten
\* a mutant of Insert: the value is added to the one the key has
InsertAdded(map, k, v) ==
    [x \in (DOMAIN map) \cup {k} |->
        IF x = k THEN (IF k \in DOMAIN map THEN map[k] + v ELSE v) ELSE map[x]]

Insert(map, k, v) == [x \in (DOMAIN map) \cup {k} |-> IF x = k THEN v ELSE map[x]]

EmptyMap == [x \in {} |-> x]

\* the map `substitutions` after the first n assignment arguments
RECURSIVE Substitutions(_, _)
Substitutions(assignment_args, n) ==
    IF n = 0 THEN EmptyMap
    ELSE Insert(Substitutions(assignment_args, n - 1),
                Sym(assignment_args[n][1]), assignment_args[n][2])

\* a mutant of SubstitutionsUntilFixedPoint: the values are inserted as written
SubstitutionsNotApplied(assignment_args, n) == Substitutions(assignment_args, n)

\* the map `substitutions_until_fixed_point` after the first n assignment arguments
RECURSIVE SubstitutionsUntilFixedPoint(_, _)
SubstitutionsUntilFixedPoint(assignment_args, n) ==
    IF n = 0 THEN EmptyMap
    ELSE LET so_far == SubstitutionsUntilFixedPoint(assignment_args, n - 1)
             new_value == apply_substitutions(assignment_args[n][2], so_far)
         IN  Insert(so_far, Sym(assignment_args[n][1]), new_value)

\* a mutant of CumulativeSubstitutions: an entry of the fixed-point map is kept
\* when the previous context has one for the same key
CumulativeChildFirst(fixed_point, ctx) ==
    IF ctx = <<>> THEN fixed_point
    ELSE LET previous == ctx[Len(ctx)].cumulative_substitutions
         IN  [k \in (DOMAIN fixed_point) \cup (DOMAIN previous) |->
                IF k \in DOMAIN fixed_point THEN fixed_point[k]
                ELSE IF previous[k] \in DOMAIN fixed_point
                     THEN fixed_point[previous[k]]
                     ELSE previous[k]]

\* the map `cumulative_substitutions`: a clone of the fixed-point map into which
\* every entry of the previous context's cumulative map is inserted
CumulativeSubstitutions(fixed_point, ctx) ==
    IF ctx = <<>> THEN fixed_point
    ELSE LET previous == ctx[Len(ctx)].cumulative_substitutions
         IN  [k \in (DOMAIN fixed_point) \cup (DOMAIN previous) |->
                IF k \in DOMAIN previous
                THEN IF previous[k] \in DOMAIN fixed_point
                     THEN fixed_point[previous[k]]
                     ELSE previous[k]
                ELSE fixed_point[k]]

\* a mutant of build_context: the assignment arguments are read last to first
build_contextReversed(ctx, assignment_args, variable_args) ==
    LET n == Len(assignment_args)
        reversed == [i \in 1..n |-> assignment_args[n + 1 - i]]
        fixed_point == SubstitutionsUntilFixedPoint(reversed, n)
    IN  [substitutions |-> Substitutions(reversed, n),
         substitutions_until_fixed_point |-> fixed_point,
         cumulative_substitutions |-> CumulativeSubstitutions(fixed_point, ctx),
         bindings |-> {variable_args[i] : i \in 1..Len(variable_args)}]

build_context(ctx, assignment_args, variable_args) ==
    LET n == Len(assignment_args)
        fixed_point == SubstitutionsUntilFixedPoint(assignment_args, n)
    IN  [substitutions |-> Substitutions(assignment_args, n),
         substitutions_until_fixed_point |-> fixed_point,
         cumulative_substitutions |-> CumulativeSubstitutions(fixed_point, ctx),
         bindings |-> {variable_args[i] : i \in 1..Len(variable_args)}]

(***************************************************************************)
(* Proofs.                                                                 *)
(***************************************************************************)
\* the step index of a command: its position path in the proof, which names
\* it uniquely; Label fills it in
Assume(term) == [kind |-> "Assume", index |-> <<>>, term |-> term]

\* `holds` is the verdict of the step's rule function on this step
Step(rule, holds) == [kind |-> "Step", index |-> <<>>, rule |-> rule, holds |-> holds]

Subproof(commands, assignment_args, variable_args) ==
    [kind |-> "Subproof", commands |-> commands,
     assignment_args |-> assignment_args, variable_args |-> variable_args]

AssumeTerms == {EqAB, EqBA, EqAC}

Assumes == {Assume(t) : t \in AssumeTerms}

\* a step the rule "trust" accepts, a step the rule "resolution" rejects and a
\* step whose rule is in no table (a step another rule accepts walks as the
\* first does)
Steps == {Step("trust", TRUE), Step("resolution", FALSE), Step("made_up_rule", FALSE)}

\* the assignment arguments of an anchor: (:= y z) (:= x (f y)); Label gives
\* every anchor a variable argument of its own, named after its position
AnchorArgs ==
    {[assignment_args |-> << <<"y", Sym("z")>>, <<"x", <<"f", Sym("y")>> >> >>,
      variable_args |-> <<>>]}

RECURSIVE CommandsOfSize(_, _)
RECURSIVE ListsOfSize(_, _)

\* the command lists of n commands in all, nested at most d deep
ListsOfSize(n, d) ==
    IF n = 0 THEN {<<>>}
    ELSE UNION {{<<c>> \o l : c \in CommandsOfSize(k, d), l \in ListsOfSize(n - k, d)} :
                k \in 1..n}

\* the commands made of n commands in all (a subproof counts itself and its
\* commands); the last command of a subproof is a step
CommandsOfSize(n, d) ==
    IF n = 1 THEN Assumes \cup Steps
    ELSE IF d = 0 THEN {}
    ELSE {Subproof(l \o <<s>>, a.assignment_args, a.variable_args) :
            l \in ListsOfSize(n - 2, d - 1), s \in Steps, a \in AnchorArgs}

RECURSIVE Label(_, _)
Label(commands, prefix) ==
    [i \in 1..Len(commands) |->
        LET c == commands[i]
        IN  IF c.kind = "Subproof"
            THEN [c EXCEPT !.commands = Label(c.commands, prefix \o <<i>>),
                           !.variable_args = << <<prefix \o <<i>>, "S">> >>]
            ELSE [c EXCEPT !.index = prefix \o <<i>>]]

CommandLists ==
    UNION {{Label(l, <<>>) : l \in ListsOfSize(n, MaxDepth)} : n \in 0..MaxCommands}

\* the premises of the problem: (= a b); an assume term is then a premise, a
\* premise up to reordering, or neither
PremiseSets == {{EqAB}}

Proofs == [premises : PremiseSets, commands : CommandLists]

Configs == [skip_unknown_rules : BOOLEAN, is_running_test : BOOLEAN]

(***************************************************************************)
(* Results.                                                                *)
(***************************************************************************)
Running == [status |-> "running"]
Ok == [status |-> "Ok"]
Panic == [status |-> "panic"]
CheckerError(inner, rule_name, step) ==
    [status |-> "Err", inner |-> inner, rule_name |-> rule_name, step |-> step]

(***************************************************************************)
(* The rule table.                                                         *)
(***************************************************************************)
RuleTable == {"trust", "resolution"}

\* a mutant of get_rule: the table that knows the rule under another name
get_ruleOtherName(rule_name) == rule_name \in {"trust_me", "resolution"}

\* Some(rule) iff the name is in the table
get_rule(rule_name) == rule_name \in RuleTable

\* the rule function applied to the step: "trust" is |_| Ok(()), a rule in
\* the old format that returns None gives RuleError::Unspecified
Rule(rule_name, step) ==
    IF rule_name = "trust" THEN "Ok"
    ELSE IF step.holds THEN "Ok" ELSE "Unspecified"

(***************************************************************************)
(* check_step                                                              *)
(***************************************************************************)
None == <<>>
Some(v) == <<v>>

\* the premises the parser can give a step: (depth, i) names a command before
\* the cursor of the frame at `depth`
ValidPremises(stack) ==
    UNION {{<<depth, i>> : i \in 0..(stack[depth + 1][1] - 1)} :
           depth \in 0..(Len(stack) - 1)}

\* the `premises` field of a step: no premise or one premise
PremiseLists(stack) == {<<>>} \cup {<<pr>> : pr \in ValidPremises(stack)}

\* a mutant of ResolvePremises: the position is read in the frame on top of the
\* stack whenever that frame is long enough
ResolveInTopFrame(premises, stack) ==
    [k \in 1..Len(premises) |->
        IF premises[k][2] + 1 <= Len(stack[Len(stack)][2])
        THEN stack[Len(stack)][2][premises[k][2] + 1]
        ELSE stack[premises[k][1] + 1][2][premises[k][2] + 1]]

\* premises.iter().map(|&(depth, i)| &commands_stack[depth].1[i]).collect()
ResolvePremises(premises, stack) ==
    [k \in 1..Len(premises) |-> stack[premises[k][1] + 1][2][premises[k][2] + 1]]

\* a mutant of SubproofCommands: no step is handed a slice
NoSubproofCommands(stack, is_end_of_subproof) == None

\* a mutant of SubproofCommands: every step is handed the current slice
AlwaysSubproofCommands(stack, is_end_of_subproof) == Some(stack[Len(stack)][2])

SubproofCommands(stack, is_end_of_subproof) ==
    IF is_end_of_subproof THEN Some(stack[Len(stack)][2]) ELSE None

\* a call self.check_step(step, &commands_stack, is_end_of_subproof): the step,
\* the depth of self.context and the subproof_commands of the call
StepCall(step, ctx, stack, is_end_of_subproof) ==
    [step |-> step.index,
     depth |-> Len(ctx),
     subproof_commands |-> SubproofCommands(stack, is_end_of_subproof)]

MakeRuleArgs(step, premises, stack, ctx, is_end_of_subproof) ==
    [step |-> step.index,
     premises |-> ResolvePremises(premises, stack),
     context |-> ctx,
     subproof_commands |-> SubproofCommands(stack, is_end_of_subproof)]

\* a mutant of UnknownRuleResult: skip_unknown_rules is not consulted
UnknownRuleAlwaysFails(step, cfg) ==
    CheckerError("UnknownRule", step.rule, step.index)

\* a mutant of UnknownRuleResult: the step is skipped in test mode only
UnknownRuleSkippedInTest(step, cfg) ==
    IF cfg.skip_unknown_rules /\ cfg.is_running_test THEN Ok
    ELSE CheckerError("UnknownRule", step.rule, step.index)

\* the two `None` arms of the match on get_rule
UnknownRuleResult(step, cfg) ==
    IF cfg.skip_unknown_rules THEN Ok
    ELSE CheckerError("UnknownRule", step.rule, step.index)

\* a mutant of RuleResult: the error of the rule is dropped
RuleErrorDropped(step) == Ok

\* rule(rule_args).map_err(|e| CheckerError { inner: e, rule_name, step })
RuleResult(step) ==
    LET verdict == Rule(step.rule, step)
    IN  IF verdict = "Ok" THEN Ok ELSE CheckerError(verdict, step.rule, step.index)

\* the value check_step returns, the RuleArgs it built (the latest ones are
\* kept when it builds none) and the premises it read
check_step(step, premises, stack, ctx, cfg, is_end_of_subproof, old) ==
    IF ~get_rule(step.rule)
    THEN [res |-> UnknownRuleResult(step, cfg), args |-> old.args, read |-> old.read]
    ELSE [res |-> RuleResult(step),
          args |-> MakeRuleArgs(step, premises, stack, ctx, is_end_of_subproof),
          read |-> premises]

\* get_premise_index of the printer: the index a premise is printed as
get_premise_index(premise, stack) ==
    LET c == stack[premise[1] + 1][2][premise[2] + 1]
    IN  IF c.kind = "Subproof" THEN c.commands[Len(c.commands)].index ELSE c.index

(***************************************************************************)
(* check                                                                   *)
(***************************************************************************)
Top == commands_stack[Len(commands_stack)]
Cursor == Top[1]
Commands == Top[2]
Current == Commands[Cursor + 1]

\* a mutant of NewFrame: the cursor of the new frame starts after its first command
NewFrameAfterFirst(commands) == <<1, commands>>

\* the frame (0, inner_commands)
NewFrame(commands) == <<0, commands>>

\* a mutant of PopFrame: the frame stays on the stack
KeepFrame(stack) == stack

\* commands_stack.pop()
PopFrame(stack) == SubSeq(stack, 1, Len(stack) - 1)

\* a mutant of PushContext: the new context goes below the others
PushContextBelow(ctx, new_context) == <<new_context>> \o ctx

\* self.context.push(new_context)
PushContext(ctx, new_context) == Append(ctx, new_context)

\* a mutant of PopContext: the context stays on the stack
KeepContext(ctx) == ctx

\* self.context.pop()
PopContext(ctx) == SubSeq(ctx, 1, Len(ctx) - 1)

\* a mutant of Advance: the cursor of the root frame is the one advanced
AdvanceRootFrame(stack) ==
    [stack EXCEPT ![1] = <<stack[1][1] + 1, stack[1][2]>>]

\* commands_stack.last_mut().unwrap().0 += 1
Advance(stack) ==
    [stack EXCEPT ![Len(stack)] = <<stack[Len(stack)][1] + 1, stack[Len(stack)][2]>>]

\* the guard of the first match arm
IsEndOfSubproof(stack) ==
    Len(stack) > 1 /\ stack[Len(stack)][1] = Len(stack[Len(stack)][2]) - 1

\* a mutant of SkipAssume: only the test mode skips the validity test
SkipAssumeInTestOnly(cfg, stack) == cfg.is_running_test

\* self.config.is_running_test || commands_stack.len() > 1
SkipAssume(cfg, stack) == cfg.is_running_test \/ Len(stack) > 1

\* a mutant of IsValidAssume: only the membership test
IsPremiseItself(term, premises) == term \in premises

\* the validity test of a root assume
IsValidAssume(term, premises) ==
    \/ term \in premises
    \/ \E u \in premises : eq_modulo_reordering(term, u)

Init ==
    /\ proof \in Proofs
    /\ config \in Configs
    /\ context = <<>>
    /\ commands_stack = << <<0, proof.commands>> >>
    /\ result = Running
    /\ rule_args = None
    /\ premises_read = <<>>
    /\ visited = <<>>
    /\ checks = 1
    /\ step_calls = <<>>
    /\ anchors = <<>> /\ built = <<>>
    /\ cp_step = <<>> /\ cp_result = <<>>
    /\ pool = <<>> /\ handles = <<>>
    /\ printer_proof = <<>> /\ printer_stack = <<>> /\ written = <<>> /\ returned = FALSE

\* i == commands.len(): the assertion, then break and Ok(())
EndOfCommands ==
    /\ result = Running
    /\ Cursor = Len(Commands)
    /\ result' = IF Len(commands_stack) = 1 THEN Ok ELSE Panic
    /\ UNCHANGED <<proof, config, context, commands_stack, rule_args,
                   premises_read, visited>>
    /\ UNCHANGED <<checks, step_calls, context_vars, cp_vars, pool_vars, printer_vars>>

\* ProofCommand::Step(step) if commands_stack.len() > 1 && i == commands.len() - 1
ClosingStep ==
    /\ result = Running
    /\ Cursor < Len(Commands)
    /\ Current.kind = "Step"
    /\ IsEndOfSubproof(commands_stack)
    /\ \E premises \in PremiseLists(commands_stack) :
         LET r == check_step(Current, premises, commands_stack, context, config, TRUE,
                             [args |-> rule_args, read |-> premises_read])
         IN  /\ rule_args' = r.args
             /\ premises_read' = r.read
             /\ IF r.res = Ok
                THEN /\ commands_stack' = Advance(PopFrame(commands_stack))
                     /\ context' = PopContext(context)
                     /\ UNCHANGED result
                ELSE /\ result' = r.res
                     /\ UNCHANGED <<commands_stack, context>>
    /\ visited' = Append(visited, Current.index)
    /\ step_calls' = Append(step_calls, StepCall(Current, context, commands_stack, TRUE))
    /\ UNCHANGED <<proof, config>>
    /\ UNCHANGED <<checks, context_vars, cp_vars, pool_vars, printer_vars>>

\* ProofCommand::Step(step)
PlainStep ==
    /\ result = Running
    /\ Cursor < Len(Commands)
    /\ Current.kind = "Step"
    /\ ~IsEndOfSubproof(commands_stack)
    /\ \E premises \in PremiseLists(commands_stack) :
         LET r == check_step(Current, premises, commands_stack, context, config, FALSE,
                             [args |-> rule_args, read |-> premises_read])
         IN  /\ rule_args' = r.args
             /\ premises_read' = r.read
             /\ IF r.res = Ok
                THEN /\ commands_stack' = Advance(commands_stack)
                     /\ UNCHANGED result
                ELSE /\ result' = r.res
                     /\ UNCHANGED commands_stack
    /\ visited' = Append(visited, Current.index)
    /\ step_calls' = Append(step_calls, StepCall(Current, context, commands_stack, FALSE))
    /\ UNCHANGED <<proof, config, context>>
    /\ UNCHANGED <<checks, context_vars, cp_vars, pool_vars, printer_vars>>

\* the index under which the history names a subproof command: the index of
\* its last step without the last position
Anchor(c) == SubSeq(c.commands[Len(c.commands)].index, 1,
                    Len(c.commands[Len(c.commands)].index) - 1)

\* ProofCommand::Subproof { commands, assignment_args, variable_args }
OpenSubproof ==
    /\ result = Running
    /\ Cursor < Len(Commands)
    /\ Current.kind = "Subproof"
    /\ context' = PushContext(context,
                              build_context(context, Current.assignment_args,
                                            Current.variable_args))
    /\ commands_stack' = Append(commands_stack, NewFrame(Current.commands))
    /\ visited' = Append(visited, Anchor(Current))
    /\ UNCHANGED <<proof, config, result, rule_args, premises_read>>
    /\ UNCHANGED <<checks, step_calls, context_vars, cp_vars, pool_vars, printer_vars>>

\* ProofCommand::Assume { index, term }
AssumeCommand ==
    /\ result = Running
    /\ Cursor < Len(Commands)
    /\ Current.kind = "Assume"
    /\ IF \/ SkipAssume(config, commands_stack)
          \/ IsValidAssume(Current.term, proof.premises)
       THEN /\ commands_stack' = Advance(commands_stack)
            /\ UNCHANGED result
       ELSE /\ result' = CheckerError("Unspecified", "assume", Current.index)
            /\ UNCHANGED commands_stack
    /\ visited' = Append(visited, Current.index)
    /\ UNCHANGED <<proof, config, context, rule_args, premises_read>>
    /\ UNCHANGED <<checks, step_calls, context_vars, cp_vars, pool_vars, printer_vars>>

Next ==
    \/ EndOfCommands
    \/ ClosingStep
    \/ PlainStep
    \/ OpenSubproof
    \/ AssumeCommand

Spec == Init /\ [][Next]_vars

\* check is one sequential loop: an iteration that can run does run
FairSpec == Spec /\ WF_vars(Next)

(***************************************************************************)
(* The proof as a tree, read without the walker's stacks.                  *)
(***************************************************************************)
\* the commands of the proof in source order, a subproof before its commands
RECURSIVE Preorder(_)
Preorder(commands) ==
    IF commands = <<>> THEN <<>>
    ELSE LET c == Head(commands)
         IN  (IF c.kind = "Subproof" THEN <<c>> \o Preorder(c.commands) ELSE <<c>>)
             \o Preorder(Tail(commands))

PathOf(c) == IF c.kind = "Subproof" THEN Anchor(c) ELSE c.index

Walk == Preorder(proof.commands)
WalkPaths == LET walk == Walk IN [k \in 1..Len(walk) |-> PathOf(walk[k])]

\* the command at a position path
RECURSIVE NodeAt(_, _)
NodeAt(commands, path) ==
    IF Len(path) = 1 THEN commands[path[1]]
    ELSE NodeAt(commands[path[1]].commands, Tail(path))

\* the command list of the subproof at a position path, the root list at <<>>
ListAt(commands, path) ==
    IF path = <<>> THEN commands ELSE NodeAt(commands, path).commands

ScopeOf(path) == SubSeq(path, 1, Len(path) - 1)

IsPrefix(s, t) == Len(s) <= Len(t) /\ s = SubSeq(t, 1, Len(s))

LastVisited == visited[Len(visited)]
LastNode == NodeAt(proof.commands, LastVisited)

\* the scope the walk stands in: that of the failed command after an error,
\* else that of the next command in source order, else the root
CurrentScope ==
    IF result.status = "Err" THEN ScopeOf(LastVisited)
    ELSE LET paths == WalkPaths
         IN  IF Len(visited) < Len(paths) THEN ScopeOf(paths[Len(visited) + 1])
             ELSE <<>>

NestingDepth == Len(CurrentScope)

\* the contexts of the subproofs around a scope, outermost first
RECURSIVE ContextsOf(_, _)
ContextsOf(scope, k) ==
    IF k = 0 THEN <<>>
    ELSE LET below == ContextsOf(scope, k - 1)
             sp == NodeAt(proof.commands, SubSeq(scope, 1, k))
         IN  Append(below, build_context(below, sp.assignment_args, sp.variable_args))

EnclosingContexts(scope) == ContextsOf(scope, Len(scope))

\* two binary applications of a commutative operator with the same arguments
SameUpToOrder(t, u) ==
    /\ Len(t) = 3 /\ Len(u) = 3
    /\ t[1] = u[1] /\ t[1] \in CommutativeOps
    /\ {t[2], t[3]} = {u[2], u[3]}

MatchesPremise(term, premises) ==
    term \in premises \/ \E u \in premises : SameUpToOrder(term, u)

\* a command that makes check fail when it is reached
Fails(c) ==
    CASE c.kind = "Assume" ->
            /\ Len(c.index) = 1
            /\ ~config.is_running_test
            /\ ~MatchesPremise(c.term, proof.premises)
      [] c.kind = "Step" ->
            \/ c.rule \notin RuleTable /\ ~config.skip_unknown_rules
            \/ c.rule \in RuleTable /\ c.rule # "trust" /\ ~c.holds
      [] OTHER -> FALSE

ErrorOf(c) ==
    CASE c.kind = "Assume" -> CheckerError("Unspecified", "assume", c.index)
      [] c.rule \notin RuleTable -> CheckerError("UnknownRule", c.rule, c.index)
      [] OTHER -> CheckerError("Unspecified", c.rule, c.index)

FailingPositions == LET walk == Walk IN {k \in 1..Len(walk) : Fails(walk[k])}

FirstFailure ==
    LET failing == FailingPositions IN CHOOSE k \in failing : \A j \in failing : k <= j

IsClosingPath(path) ==
    Len(path) > 1 /\ path[Len(path)] = Len(ListAt(proof.commands, ScopeOf(path)))

(***************************************************************************)
(* Properties of the walker.                                               *)
(***************************************************************************)
\* C1: in every state of check the work stack is one deeper than the context
\* stack and one deeper than the current subproof nesting.
WalkerConservation ==
    /\ Len(commands_stack) = Len(context) + 1
    /\ Len(commands_stack) = 1 + NestingDepth

WalkerConservationWitness ==
    /\ result = Running
    /\ Len(commands_stack) = 3
    /\ Len(context) = 2
    /\ Cursor = 0

\* C2: the commands are matched in source order, depth-first, each once: the
\* history is a prefix of the preorder of the proof, and all of it on Ok.
InSourceOrder ==
    /\ IsPrefix(visited, WalkPaths)
    /\ result = Ok => visited = WalkPaths

InSourceOrderWitness ==
    /\ result = Ok
    /\ \E k \in 1..(Len(visited) - 1) :
         /\ IsClosingPath(visited[k])
         /\ visited[k + 1] = <<visited[k][1] + 1>>

\* C3: check returns the error of the first failing command in source order,
\* with its index and rule name, and matches no command after it.
FirstErrorAborts ==
    /\ result.status = "Err" =>
         /\ FailingPositions # {}
         /\ visited = SubSeq(WalkPaths, 1, FirstFailure)
         /\ result = ErrorOf(Walk[FirstFailure])
    /\ FailingPositions # {} => Len(visited) <= FirstFailure /\ result # Ok

FirstErrorAbortsWitness ==
    /\ result.status = "Err"
    /\ Cardinality(FailingPositions) >= 2
    /\ Len(visited) >= 2
    /\ result.inner = "Unspecified"
    /\ result.rule_name = "resolution"

\* C4: check halts: every iteration matches one more command of the finite
\* proof or returns, and an iteration can run until check has returned; it
\* returns Ok only at the end of the root commands with no subproof open, and
\* there always Ok: its assertion never fails.
ChecksTerminate ==
    /\ [](Len(visited) <= Len(Walk))
    /\ [](result = Running => ENABLED Next)
    /\ [][Len(visited') = Len(visited) + 1 \/ result' # Running]_vars
    /\ [](result # Panic)
    /\ [](result = Ok => commands_stack = << <<Len(proof.commands), proof.commands>> >>)
    /\ [][(result = Running /\ Cursor = Len(Commands)) => result' = Ok]_vars

\* under the fairness of a sequential loop, check returns
ChecksReturn == <>(result.status \in {"Ok", "Err"})

ChecksTerminateWitness ==
    /\ result = Ok
    /\ Len(visited) = Len(Walk)
    /\ \E k \in 1..Len(visited) : Len(visited[k]) = 3

\* C5: a root assume outside test mode is accepted iff its term is a premise
\* or a premise up to reordering, else check fails with Unspecified under the
\* rule name "assume" and the index of the assume.
RootAssumeChecked ==
    (/\ visited # <<>>
     /\ LastNode.kind = "Assume"
     /\ Len(LastVisited) = 1
     /\ ~config.is_running_test) =>
        IF MatchesPremise(LastNode.term, proof.premises)
        THEN /\ result.status # "Err"
             /\ commands_stack = << <<LastVisited[1], proof.commands>> >>
        ELSE result = CheckerError("Unspecified", "assume", LastNode.index)

RootAssumeCheckedWitness ==
    /\ visited # <<>>
    /\ LastNode.kind = "Assume"
    /\ Len(LastVisited) = 1
    /\ ~config.is_running_test
    /\ LastNode.term = EqBA
    /\ proof.premises = {EqAB}
    /\ result = Running

\* C6: an assume inside a subproof, and any assume in test mode, is accepted
\* whatever the premises are.
InnerAssumeAccepted ==
    (/\ visited # <<>>
     /\ LastNode.kind = "Assume"
     /\ (Len(LastVisited) > 1 \/ config.is_running_test)) =>
        /\ result.status # "Err"
        /\ Cursor = LastVisited[Len(LastVisited)]
        /\ Len(commands_stack) = Len(LastVisited)

InnerAssumeAcceptedWitness ==
    /\ visited # <<>>
    /\ LastNode.kind = "Assume"
    /\ Len(LastVisited) > 1
    /\ ~config.is_running_test
    /\ ~MatchesPremise(LastNode.term, proof.premises)
    /\ result = Running

\* C7: the context stack holds exactly the contexts of the open subproofs,
\* outermost first, and so does the context stack every rule was given.
ContextsFollowSubproofs ==
    /\ context = EnclosingContexts(CurrentScope)
    /\ rule_args # None =>
         rule_args.context = EnclosingContexts(ScopeOf(rule_args.step))

ContextsFollowSubproofsWitness ==
    /\ rule_args # None
    /\ Len(rule_args.context) = 2
    /\ rule_args.subproof_commands # None
    /\ Len(context) = 1
    /\ result = Running

\* C8: a step gets the slice of its frame as subproof_commands iff it is the
\* last command of a subproof, else None; once a closing step has succeeded
\* its frame and context are gone and the parent's cursor is past the subproof.
ClosingStepsGetSubproof ==
    /\ rule_args # None =>
         rule_args.subproof_commands =
            IF IsClosingPath(rule_args.step)
            THEN Some(ListAt(proof.commands, ScopeOf(rule_args.step)))
            ELSE None
    /\ (/\ visited # <<>>
        /\ LastNode.kind = "Step"
        /\ IsClosingPath(LastVisited)
        /\ result.status # "Err") =>
            /\ Len(commands_stack) = Len(LastVisited) - 1
            /\ Len(context) = Len(LastVisited) - 2
            /\ Top = <<LastVisited[Len(LastVisited) - 1],
                       ListAt(proof.commands, ScopeOf(ScopeOf(LastVisited)))>>

ClosingStepsGetSubproofWitness ==
    /\ visited # <<>>
    /\ LastNode.kind = "Step"
    /\ IsClosingPath(LastVisited)
    /\ rule_args # None
    /\ rule_args.step = LastVisited
    /\ rule_args.subproof_commands # None
    /\ Len(commands_stack) = 1
    /\ result = Running

\* the index a premise at a position path is printed as: that of the last step
\* for a subproof
PremiseName(path) ==
    IF NodeAt(proof.commands, path).kind = "Subproof"
    THEN path \o <<Len(NodeAt(proof.commands, path).commands)>>
    ELSE path

\* the position path of the command a premise of the step at `index` names
PremiseTarget(index, premise) == SubSeq(index, 1, premise[1]) \o <<premise[2] + 1>>

\* C9: a premise (depth, position) of a step resolves to the position-th
\* command of the list of the scope at that depth around the step, and is
\* named by the last step of that command when it is a subproof.
PremisesResolveInScope ==
    /\ rule_args # None =>
         /\ Len(rule_args.premises) = Len(premises_read)
         /\ \A k \in 1..Len(premises_read) :
              rule_args.premises[k] =
                NodeAt(proof.commands, PremiseTarget(rule_args.step, premises_read[k]))
    /\ (result = Running /\ Cursor < Len(Commands) /\ Current.kind = "Step") =>
         \A pr \in ValidPremises(commands_stack) :
            get_premise_index(pr, commands_stack) =
                PremiseName(PremiseTarget(Current.index, pr))

PremisesResolveInScopeWitness ==
    /\ rule_args # None
    /\ Len(rule_args.step) = 2
    /\ premises_read = << <<0, 0>> >>
    /\ rule_args.premises[1].kind = "Subproof"

\* C10: a step whose rule is in no table fails with UnknownRule, its rule name
\* and index unless skip_unknown_rules is set; then it passes and no rule runs.
UnknownRuleHandling ==
    (/\ visited # <<>>
     /\ LastNode.kind = "Step"
     /\ LastNode.rule \notin RuleTable) =>
        IF config.skip_unknown_rules
        THEN /\ result.status # "Err"
             /\ rule_args # None => rule_args.step # LastVisited
        ELSE result = CheckerError("UnknownRule", LastNode.rule, LastNode.index)

UnknownRuleHandlingWitness ==
    /\ visited # <<>>
    /\ LastNode.kind = "Step"
    /\ LastNode.rule \notin RuleTable
    /\ config.skip_unknown_rules
    /\ Len(LastVisited) = 1
    /\ commands_stack = << <<LastVisited[1], proof.commands>> >>
    /\ result = Running

\* C11: a step whose rule is "trust" is dispatched to the rule and never fails,
\* whatever its conclusion, its premises, its place in the proof and the
\* configuration.
TrustAlwaysSucceeds ==
    (/\ visited # <<>>
     /\ LastNode.kind = "Step"
     /\ LastNode.rule = "trust") =>
        /\ result.status \in {"running", "Ok"}
        /\ rule_args # None
        /\ rule_args.step = LastVisited

TrustAlwaysSucceedsWitness ==
    /\ visited # <<>>
    /\ LastNode.kind = "Step"
    /\ LastNode.rule = "trust"
    /\ Len(LastVisited) = 2
    /\ premises_read # <<>>
    /\ ~config.skip_unknown_rules
    /\ ~config.is_running_test
    /\ rule_args.subproof_commands # None

(***************************************************************************)
(* build_context alone: the contexts of nested anchors, built for every     *)
(* list of assignment arguments over a small alphabet.                      *)
(***************************************************************************)
\* the assignment arguments of all the nested anchors together
MaxAssignments == 3

AssignedNames == {"x", "y"}
AssignedValues == {Sym("x"), Sym("y"), Sym("z"), <<"f", Sym("y")>>}
AssignmentArgs == {<<name, value>> : name \in AssignedNames, value \in AssignedValues}

\* a list of assignment arguments cut into the lists of nested anchors: the
\* k-th anchor has the arguments after cuts[k - 1] up to cuts[k]
NestedAnchors(args, cuts) ==
    [k \in 1..Len(cuts) |->
        LET from == IF k = 1 THEN 0 ELSE cuts[k - 1]
        IN  [i \in 1..(cuts[k] - from) |-> args[from + i]]]

\* the terms the maps are applied to
ProbeTerms ==
    {Sym("x"), Sym("y"), Sym("z"), <<"f", Sym("x")>>, <<"f", Sym("y")>>,
     <<"g", Sym("x"), <<"f", Sym("y")>> >>}

ContextInit ==
    /\ \E n \in 0..MaxAssignments, d \in 1..MaxDepth :
         \E args \in [1..n -> AssignmentArgs], cuts \in [1..d -> 0..n] :
            /\ cuts[d] = n
            /\ \A k \in 1..(d - 1) : cuts[k] <= cuts[k + 1]
            /\ anchors = NestedAnchors(args, cuts)
    /\ built = <<>>
    /\ proof = <<>> /\ config = <<>> /\ context = <<>> /\ commands_stack = <<>>
    /\ result = <<>> /\ rule_args = <<>> /\ premises_read = <<>> /\ visited = <<>>
    /\ checks = 0 /\ step_calls = <<>>
    /\ cp_step = <<>> /\ cp_result = <<>>
    /\ pool = <<>> /\ handles = <<>>
    /\ printer_proof = <<>> /\ printer_stack = <<>> /\ written = <<>> /\ returned = FALSE

\* the anchor of the next nested subproof is entered: its context is built on
\* the contexts of the enclosing ones and pushed
BuildContext ==
    /\ Len(built) < Len(anchors)
    /\ built' = Append(built, build_context(built, anchors[Len(built) + 1], <<>>))
    /\ UNCHANGED <<anchors, walker_vars, cp_vars, pool_vars, printer_vars>>

ContextNext == BuildContext

ContextSpec == ContextInit /\ [][ContextNext]_vars

\* the map that reading the arguments in written order gives, started from map
RECURSIVE LeftToRight(_, _)
LeftToRight(args, map) ==
    IF args = <<>> THEN map
    ELSE LeftToRight(Tail(args),
                     Insert(map, Sym(Head(args)[1]),
                            apply_substitutions(Head(args)[2], map)))

\* the value written last for the name
LastWritten(args, name) ==
    LET last == CHOOSE i \in 1..Len(args) :
                    /\ args[i][1] = name
                    /\ \A j \in (i + 1)..Len(args) : args[j][1] # name
    IN  args[last][2]

NamesOf(args) == {args[i][1] : i \in 1..Len(args)}

\* the maps of the two assignment arguments ((:= y z) (:= x (f y)))
TwoArgs == << <<"y", Sym("z")>>, <<"x", <<"f", Sym("y")>> >> >>
TwoArgsFixedPoint ==
    [k \in {Sym("y"), Sym("x")} |-> IF k = Sym("y") THEN Sym("z") ELSE <<"f", Sym("z")>>]
TwoArgsRaw ==
    [k \in {Sym("y"), Sym("x")} |-> IF k = Sym("y") THEN Sym("z") ELSE <<"f", Sym("y")>>]

RECURSIVE Mentions(_, _)
Mentions(term, name) ==
    \/ term = Sym(name)
    \/ \E i \in 2..Len(term) : Mentions(term[i], name)

\* no value mentions the variable it is assigned to or one assigned later
InDependencyOrder(args) ==
    \A i \in 1..Len(args) : \A j \in i..Len(args) : ~Mentions(args[i][2], args[j][1])

Idempotent(map) ==
    \A t \in ProbeTerms :
        apply_substitutions(apply_substitutions(t, map), map) = apply_substitutions(t, map)

\* C13 as stated: applying any substitutions_until_fixed_point map twice gives
\* what applying it once gives.
FixedPointIdempotent ==
    \A i \in 1..Len(built) : Idempotent(built[i].substitutions_until_fixed_point)

\* C13: applying a substitutions_until_fixed_point map twice gives what
\* applying it once gives, when no assignment argument it was built from
\* mentions the variable it is assigned to or a variable assigned later.
OrderedFixedPointIdempotent ==
    \A i \in 1..Len(built) :
        InDependencyOrder(anchors[i]) => Idempotent(built[i].substitutions_until_fixed_point)

OrderedFixedPointIdempotentWitness ==
    /\ Len(built) = 1
    /\ anchors[1] = TwoArgs
    /\ InDependencyOrder(anchors[1])
    /\ apply_substitutions(<<"g", Sym("x"), <<"f", Sym("y")>> >>,
                           built[1].substitutions_until_fixed_point)
         = <<"g", <<"f", Sym("z")>>, <<"f", Sym("z")>> >>

\* C14: applying the cumulative map of a context is applying the cumulative
\* map of the enclosing context and then the fixed-point map of the context.
CumulativeComposes ==
    \A i \in 2..Len(built) : \A t \in ProbeTerms :
        apply_substitutions(t, built[i].cumulative_substitutions) =
            apply_substitutions(
                apply_substitutions(t, built[i - 1].cumulative_substitutions),
                built[i].substitutions_until_fixed_point)

\* a map as a set of pairs
Pairs(map) == {<<k, map[k]>> : k \in DOMAIN map}

\* the pairs the entries of the enclosing cumulative map give
Inherited(previous, fixed_point) ==
    {<<k, IF previous[k] \in DOMAIN fixed_point
          THEN fixed_point[previous[k]] ELSE previous[k]>> : k \in DOMAIN previous}

\* C15 as stated: the cumulative map is the union of the fixed-point map and
\* the pairs the enclosing cumulative map gives.
CumulativeIsUnion ==
    \A i \in 1..Len(built) :
        LET fixed_point == built[i].substitutions_until_fixed_point IN
        Pairs(built[i].cumulative_substitutions) =
            IF i = 1 THEN Pairs(fixed_point)
            ELSE Pairs(fixed_point)
                    \cup Inherited(built[i - 1].cumulative_substitutions, fixed_point)

\* C15: the cumulative map holds the pairs the enclosing cumulative map gives
\* and the pairs of the fixed-point map for the other keys; without an
\* enclosing context it is the fixed-point map.
CumulativeKeepsInherited ==
    \A i \in 1..Len(built) :
        LET fixed_point == built[i].substitutions_until_fixed_point IN
        Pairs(built[i].cumulative_substitutions) =
            IF i = 1 THEN Pairs(fixed_point)
            ELSE LET previous == built[i - 1].cumulative_substitutions
                 IN  Inherited(previous, fixed_point)
                        \cup {p \in Pairs(fixed_point) : p[1] \notin DOMAIN previous}

CumulativeKeepsInheritedWitness ==
    /\ Len(built) = 2
    /\ built[1].cumulative_substitutions = [k \in {Sym("y")} |-> Sym("z")]
    /\ built[2].substitutions_until_fixed_point = [k \in {Sym("y")} |-> Sym("x")]
    /\ built[2].cumulative_substitutions = [k \in {Sym("y")} |-> Sym("z")]

(***************************************************************************)
(* The cutting-planes rules, each alone on the RuleArgs of one step.        *)
(***************************************************************************)
\* terms of the rules: integer constants, symbols and applications
IntTerm(n) == [kind |-> "int", value |-> n]
SymTerm(name) == [kind |-> "sym", name |-> name]
App(op, args) == [kind |-> "app", op |-> op, args |-> args]

\* results of the helpers: a value or the kind of the error
Good(v) == [ok |-> TRUE, value |-> v]
Bad(kind) == [ok |-> FALSE, error |-> kind]

\* Term::as_integer_err: the value of an integer constant
as_integer_err(term) ==
    IF term.kind = "int" THEN Good(term.value) ELSE Bad("ExpectedInteger")

\* the key a literal is stored under: its printed form
to_string(term) == IF term.kind = "sym" THEN term.name ELSE ToString(term)

\* match_term_err!((* coeff literal) = term)
MatchTimes(term) ==
    IF term.kind = "app" /\ term.op = "*" /\ Len(term.args) = 2
    THEN Good([coeff |-> term.args[1], literal |-> term.args[2]])
    ELSE Bad("CouldNotMatch")

\* match_term_err!((>= (+ ...) constant) = clause)
MatchInequality(clause) ==
    IF /\ clause.kind = "app" /\ clause.op = ">=" /\ Len(clause.args) = 2
       /\ clause.args[1].kind = "app" /\ clause.args[1].op = "+"
    THEN Good([pbsum |-> clause.args[1].args, constant |-> clause.args[2]])
    ELSE Bad("CouldNotMatch")

\* the PbHash after the first n summands, or the first error among them
RECURSIVE PbHashOfFirst(_, _)
PbHashOfFirst(pbsum, n) ==
    IF n = 0 THEN Good(EmptyMap)
    ELSE LET hm == PbHashOfFirst(pbsum, n - 1)
             matched == MatchTimes(pbsum[n])
         IN  IF ~hm.ok THEN hm
             ELSE IF ~matched.ok THEN matched
             ELSE LET coeff == as_integer_err(matched.value.coeff)
                  IN  IF ~coeff.ok THEN coeff
                      ELSE Good(Insert(hm.value, to_string(matched.value.literal),
                                       coeff.value))

\* every summand but the last goes into the map, a later coefficient of a
\* literal over an earlier one; the sums given here have a summand
get_pb_hashmap(pbsum) == PbHashOfFirst(pbsum, Len(pbsum) - 1)

unwrap_pseudoboolean_inequality(clause) ==
    LET matched == MatchInequality(clause) IN
    IF ~matched.ok THEN matched
    ELSE LET constant == as_integer_err(matched.value.constant)
             pbsum == get_pb_hashmap(matched.value.pbsum)
         IN  IF ~constant.ok THEN constant
             ELSE IF ~pbsum.ok THEN pbsum
             ELSE Good([pbsum |-> pbsum.value, constant |-> constant.value])

\* rug::Integer division: the quotient rounded towards zero (the divisor is
\* not zero where it is used)
Abs(n) == IF n < 0 THEN -n ELSE n
\* a mutant of IntegerDiv: the quotient of the predecessor, rounded down
IntegerDivOfPredecessor(a, b) == (a - 1) \div b

IntegerDiv(a, b) ==
    IF (a >= 0) = (b > 0) THEN Abs(a) \div Abs(b) ELSE -(Abs(a) \div Abs(b))

\* ProofArg::Term and ProofArg::as_term on it
TermArg(term) == [kind |-> "Term", term |-> term]
as_term(arg) == arg.term

\* A rule is given as the set of the results it can return: the loops over a
\* HashMap meet its entries in an order the build fixes, so the error
\* returned is that of any entry that fails.
\* a mutant of AdditionErrors: a literal of both premises keeps the left
\* coefficient
AdditionErrorsLeftKept(pbsum_l, pbsum_r, pbsum_c) ==
    {IF literal \in DOMAIN pbsum_l
        THEN IF pbsum_l[literal] = pbsum_c[literal] THEN "Ok" ELSE "ExpectedInteger"
     ELSE IF literal \in DOMAIN pbsum_r
        THEN IF pbsum_r[literal] = pbsum_c[literal] THEN "Ok" ELSE "ExpectedInteger"
     ELSE "ExpectedToNotBeEmpty" : literal \in DOMAIN pbsum_c} \ {"Ok"}

\* the entries of the conclusion of cp_addition that fail, with their errors
AdditionErrors(pbsum_l, pbsum_r, pbsum_c) ==
    {IF literal \in DOMAIN pbsum_l /\ literal \in DOMAIN pbsum_r
        THEN IF pbsum_l[literal] + pbsum_r[literal] = pbsum_c[literal]
             THEN "Ok" ELSE "ExpectedInteger"
     ELSE IF literal \in DOMAIN pbsum_l
        THEN IF pbsum_l[literal] = pbsum_c[literal] THEN "Ok" ELSE "ExpectedInteger"
     ELSE IF literal \in DOMAIN pbsum_r
        THEN IF pbsum_r[literal] = pbsum_c[literal] THEN "Ok" ELSE "ExpectedInteger"
     ELSE "ExpectedToNotBeEmpty" : literal \in DOMAIN pbsum_c} \ {"Ok"}

cp_addition(args) ==
    IF Len(args.premises) # 2 THEN {"WrongNumberOfPremises"}
    ELSE IF Len(args.premises[1].clause) # 1 THEN {"WrongLengthOfClause"}
    ELSE IF Len(args.premises[2].clause) # 1 THEN {"WrongLengthOfClause"}
    ELSE IF Len(args.args) # 0 THEN {"WrongNumberOfArgs"}
    ELSE IF Len(args.conclusion) # 1 THEN {"WrongLengthOfClause"}
    ELSE LET l == unwrap_pseudoboolean_inequality(args.premises[1].clause[1])
             r == unwrap_pseudoboolean_inequality(args.premises[2].clause[1])
             c == unwrap_pseudoboolean_inequality(args.conclusion[1])
         IN  IF ~l.ok THEN {l.error}
             ELSE IF ~r.ok THEN {r.error}
             ELSE IF ~c.ok THEN {c.error}
             ELSE IF l.value.constant + r.value.constant # c.value.constant
                  THEN {"ExpectedInteger"}
             ELSE IF ~(DOMAIN l.value.pbsum \subseteq DOMAIN c.value.pbsum)
                  THEN {"ExpectedToNotBeEmpty"}
             ELSE IF ~(DOMAIN r.value.pbsum \subseteq DOMAIN c.value.pbsum)
                  THEN {"ExpectedToNotBeEmpty"}
             ELSE LET errors == AdditionErrors(l.value.pbsum, r.value.pbsum,
                                               c.value.pbsum)
                  IN  IF errors # {} THEN errors ELSE {"Ok"}

\* a mutant of MultiplicationErrors: the coefficients are not multiplied
MultiplicationErrorsUnscaled(scalar, pbsum_p, pbsum_c) ==
    {IF literal \in DOMAIN pbsum_c
        THEN IF pbsum_p[literal] = pbsum_c[literal] THEN "Ok" ELSE "ExpectedInteger"
     ELSE "ExpectedToNotBeEmpty" : literal \in DOMAIN pbsum_p} \ {"Ok"}

\* a mutant of MultiplicationErrors: a literal the conclusion lacks is let pass
MultiplicationErrorsMissingPass(scalar, pbsum_p, pbsum_c) ==
    {IF literal \in DOMAIN pbsum_c
        THEN IF scalar * pbsum_p[literal] = pbsum_c[literal]
             THEN "Ok" ELSE "ExpectedInteger"
     ELSE "Ok" : literal \in DOMAIN pbsum_p} \ {"Ok"}

\* the entries of the premise of cp_multiplication that fail, with their errors
MultiplicationErrors(scalar, pbsum_p, pbsum_c) ==
    {IF literal \in DOMAIN pbsum_c
        THEN IF scalar * pbsum_p[literal] = pbsum_c[literal]
             THEN "Ok" ELSE "ExpectedInteger"
     ELSE "ExpectedToNotBeEmpty" : literal \in DOMAIN pbsum_p} \ {"Ok"}

\* a mutant of cp_multiplication: the arguments are counted first
cp_multiplicationArgsFirst(args) ==
    IF Len(args.args) # 1 THEN {"WrongNumberOfArgs"}
    ELSE IF Len(args.premises) # 1 THEN {"WrongNumberOfPremises"}
    ELSE IF Len(args.premises[1].clause) # 1 THEN {"WrongLengthOfClause"}
    ELSE LET scalar == as_integer_err(as_term(args.args[1])) IN
         IF ~scalar.ok THEN {scalar.error}
         ELSE IF Len(args.conclusion) # 1 THEN {"WrongLengthOfClause"}
         ELSE LET p == unwrap_pseudoboolean_inequality(args.premises[1].clause[1])
                  c == unwrap_pseudoboolean_inequality(args.conclusion[1])
              IN  IF ~p.ok THEN {p.error}
                  ELSE IF ~c.ok THEN {c.error}
                  ELSE IF scalar.value * p.value.constant # c.value.constant
                       THEN {"ExpectedInteger"}
                  ELSE IF ~(DOMAIN c.value.pbsum \subseteq DOMAIN p.value.pbsum)
                       THEN {"ExpectedToNotBeEmpty"}
                  ELSE LET errors == MultiplicationErrors(scalar.value, p.value.pbsum,
                                                          c.value.pbsum)
                       IN  IF errors # {} THEN errors ELSE {"Ok"}

cp_multiplication(args) ==
    IF Len(args.premises) # 1 THEN {"WrongNumberOfPremises"}
    ELSE IF Len(args.premises[1].clause) # 1 THEN {"WrongLengthOfClause"}
    ELSE IF Len(args.args) # 1 THEN {"WrongNumberOfArgs"}
    ELSE LET scalar == as_integer_err(as_term(args.args[1])) IN
         IF ~scalar.ok THEN {scalar.error}
         ELSE IF Len(args.conclusion) # 1 THEN {"WrongLengthOfClause"}
         ELSE LET p == unwrap_pseudoboolean_inequality(args.premises[1].clause[1])
                  c == unwrap_pseudoboolean_inequality(args.conclusion[1])
              IN  IF ~p.ok THEN {p.error}
                  ELSE IF ~c.ok THEN {c.error}
                  ELSE IF scalar.value * p.value.constant # c.value.constant
                       THEN {"ExpectedInteger"}
                  ELSE IF ~(DOMAIN c.value.pbsum \subseteq DOMAIN p.value.pbsum)
                       THEN {"ExpectedToNotBeEmpty"}
                  ELSE LET errors == MultiplicationErrors(scalar.value, p.value.pbsum,
                                                          c.value.pbsum)
                       IN  IF errors # {} THEN errors ELSE {"Ok"}

\* the entries of the premise of cp_division that fail: only the literals the
\* conclusion has are compared
DivisionErrors(divisor, pbsum_p, pbsum_c) ==
    {IF literal \in DOMAIN pbsum_c
        THEN IF IntegerDiv(pbsum_p[literal] + divisor - 1, divisor) = pbsum_c[literal]
             THEN "Ok" ELSE "ExpectedInteger"
     ELSE "Ok" : literal \in DOMAIN pbsum_p} \ {"Ok"}

\* premises[0].clause[0] is indexed without a check of the length of the
\* clause, and the quotients are taken without a check of the divisor
cp_division(args) ==
    IF Len(args.premises) # 1 THEN {"WrongNumberOfPremises"}
    ELSE IF Len(args.premises[1].clause) = 0 THEN {"panic"}
    ELSE IF Len(args.args) # 1 THEN {"WrongNumberOfArgs"}
    ELSE LET divisor == as_integer_err(as_term(args.args[1])) IN
         IF ~divisor.ok THEN {divisor.error}
         ELSE IF Len(args.conclusion) # 1 THEN {"WrongLengthOfClause"}
         ELSE LET p == unwrap_pseudoboolean_inequality(args.premises[1].clause[1])
                  c == unwrap_pseudoboolean_inequality(args.conclusion[1])
              IN  IF ~p.ok THEN {p.error}
                  ELSE IF ~c.ok THEN {c.error}
                  ELSE IF divisor.value = 0 THEN {"panic"}
                  ELSE IF IntegerDiv(p.value.constant + divisor.value - 1,
                                     divisor.value) # c.value.constant
                       THEN {"ExpectedInteger"}
                  ELSE LET errors == DivisionErrors(divisor.value, p.value.pbsum,
                                                    c.value.pbsum)
                       IN  IF errors # {} THEN errors ELSE {"Ok"}

Min(a, b) == IF a <= b THEN a ELSE b

\* a mutant of SaturationErrors: the coefficient is to be one less
SaturationErrorsBelowMin(constant_p, pbsum_p, pbsum_c) ==
    {IF literal \in DOMAIN pbsum_c
        THEN IF Min(constant_p, pbsum_p[literal]) - 1 = pbsum_c[literal]
             THEN "Ok" ELSE "ExpectedInteger"
     ELSE "ExpectedToNotBeEmpty" : literal \in DOMAIN pbsum_p} \ {"Ok"}

\* a mutant of SaturationErrors: the coefficient of the premise is to be kept
SaturationErrorsKept(constant_p, pbsum_p, pbsum_c) ==
    {IF literal \in DOMAIN pbsum_c
        THEN IF pbsum_p[literal] = pbsum_c[literal] THEN "Ok" ELSE "ExpectedInteger"
     ELSE "ExpectedToNotBeEmpty" : literal \in DOMAIN pbsum_p} \ {"Ok"}

\* the entries of the premise of cp_saturation that fail, with their errors
SaturationErrors(constant_p, pbsum_p, pbsum_c) ==
    {IF literal \in DOMAIN pbsum_c
        THEN IF Min(constant_p, pbsum_p[literal]) = pbsum_c[literal]
             THEN "Ok" ELSE "ExpectedInteger"
     ELSE "ExpectedToNotBeEmpty" : literal \in DOMAIN pbsum_p} \ {"Ok"}

\* premises[0].clause[0] is indexed without a check of the length of the
\* clause
cp_saturation(args) ==
    IF Len(args.premises) # 1 THEN {"WrongNumberOfPremises"}
    ELSE IF Len(args.args) # 0 THEN {"WrongNumberOfArgs"}
    ELSE IF Len(args.premises[1].clause) = 0 THEN {"panic"}
    ELSE IF Len(args.conclusion) # 1 THEN {"WrongLengthOfClause"}
    ELSE LET p == unwrap_pseudoboolean_inequality(args.premises[1].clause[1])
             c == unwrap_pseudoboolean_inequality(args.conclusion[1])
         IN  IF ~p.ok THEN {p.error}
             ELSE IF ~c.ok THEN {c.error}
             ELSE IF p.value.constant # c.value.constant THEN {"ExpectedInteger"}
             ELSE IF ~(DOMAIN c.value.pbsum \subseteq DOMAIN p.value.pbsum)
                  THEN {"ExpectedToNotBeEmpty"}
             ELSE LET errors == SaturationErrors(p.value.constant, p.value.pbsum,
                                                 c.value.pbsum)
                  IN  IF errors # {} THEN errors ELSE {"Ok"}

(***************************************************************************)
(* The steps the rules are run on.                                          *)
(***************************************************************************)
\* the largest coefficient, constant and argument of a premise
MaxCoef == 2

Literals == {"x1", "x2"}

\* (* c l)
Times(c, literal) == App("*", <<IntTerm(c), SymTerm(literal)>>)

\* the summands of a map, x1 before x2
Summands(map) ==
    (IF "x1" \in DOMAIN map THEN <<Times(map["x1"], "x1")>> ELSE <<>>)
        \o (IF "x2" \in DOMAIN map THEN <<Times(map["x2"], "x2")>> ELSE <<>>)

\* (>= (+ (* c1 x1) (* c2 x2) 0) K)
Inequality(map, constant) ==
    App(">=", <<App("+", Summands(map) \o <<IntTerm(0)>>), IntTerm(constant)>>)

\* the maps that give x1 a coefficient of coefs1 or none and x2 one of coefs2
\* or none
PbMaps(coefs1, coefs2) ==
    UNION {{m \in [D -> coefs1 \cup coefs2] :
                /\ "x1" \in D => m["x1"] \in coefs1
                /\ "x2" \in D => m["x2"] \in coefs2} : D \in SUBSET Literals}

Inequalities(coefs1, coefs2, constants) ==
    {Inequality(m, k) : m \in PbMaps(coefs1, coefs2), k \in constants}

Premise(term) == [clause |-> <<term>>]

ProofStep(rule, premises, args, conclusion) ==
    [rule |-> rule, premises |-> premises, args |-> args, conclusion |-> conclusion]

SmallInequalities == Inequalities(1..MaxCoef, {1}, 1..MaxCoef)
SignedInequalities == Inequalities(-MaxCoef..MaxCoef, {1}, -MaxCoef..MaxCoef)

AdditionConclusions == Inequalities(1..(2 * MaxCoef), {1, 2}, 1..(2 * MaxCoef))
MultiplicationConclusions ==
    Inequalities(-MaxCoef..(2 * MaxCoef), -1..2, -MaxCoef..(2 * MaxCoef))
Arguments == -1..MaxCoef

\* steps with any number of premises, of terms in their clauses and of
\* arguments, and with an argument that is no integer
TwoX1 == Inequality([literal \in {"x1"} |-> 2], 2)
OneX1 == Inequality([literal \in {"x1"} |-> 1], 1)
UpToTwo(x) == {<<>>, <<x>>, <<x, x>>}
OddSteps ==
    {ProofStep(rule, premises, args, conclusion) :
        rule \in {"cp_addition", "cp_multiplication", "cp_division", "cp_saturation"},
        premises \in UNION {[1..n -> {[clause |-> clause] : clause \in UpToTwo(TwoX1)}] :
                                n \in 0..2},
        args \in UpToTwo(TermArg(IntTerm(2))) \cup {<<TermArg(SymTerm("x1"))>>},
        conclusion \in UpToTwo(OneX1)}

\* inequalities of other shapes: without the 0, with another last summand,
\* with a summand that is no product, with a coefficient or a constant that is
\* no integer, without a sum, and a term that is no inequality
LooseInequalities ==
    {OneX1,
     App(">=", <<App("+", <<Times(1, "x1"), Times(1, "x2")>>), IntTerm(1)>>),
     App(">=", <<App("+", <<Times(1, "x1"), IntTerm(1)>>), IntTerm(1)>>),
     App(">=", <<App("+", <<SymTerm("x1"), IntTerm(0)>>), IntTerm(1)>>),
     App(">=", <<App("+", <<App("*", <<SymTerm("x2"), SymTerm("x1")>>), IntTerm(0)>>),
                 IntTerm(1)>>),
     App(">=", <<App("+", <<Times(1, "x1"), IntTerm(0)>>), SymTerm("x2")>>),
     App(">=", <<SymTerm("x1"), IntTerm(1)>>),
     SymTerm("x1")}

LooseSteps ==
    {ProofStep("cp_addition", <<Premise(l), Premise(r)>>, <<>>, <<c>>) :
        l \in LooseInequalities, r \in LooseInequalities, c \in LooseInequalities}
    \cup {ProofStep(rule, <<Premise(p)>>, <<TermArg(IntTerm(1))>>, <<c>>) :
            rule \in {"cp_multiplication", "cp_division"},
            p \in LooseInequalities, c \in LooseInequalities}
    \cup {ProofStep("cp_saturation", <<Premise(p)>>, <<>>, <<c>>) :
            p \in LooseInequalities, c \in LooseInequalities}

\* (>= (+ (* a x1) (* b x1) 0) k) and (>= (+ (* a x1) (* 1 x2) (* b x1) 0) k):
\* the literal x1 in two summands of one sum
RepeatedInequality(a, b, with_x2, k) ==
    App(">=", <<App("+", <<Times(a, "x1")>>
                            \o (IF with_x2 THEN <<Times(1, "x2")>> ELSE <<>>)
                            \o <<Times(b, "x1"), IntTerm(0)>>),
                IntTerm(k)>>)

RepeatedInequalities ==
    {RepeatedInequality(a, b, with_x2, k) :
        a \in 1..MaxCoef, b \in 1..MaxCoef, with_x2 \in BOOLEAN, k \in 1..MaxCoef}

CpInit ==
    /\ \/ \E l \in SmallInequalities, r \in SmallInequalities, c \in AdditionConclusions :
            cp_step = ProofStep("cp_addition", <<Premise(l), Premise(r)>>, <<>>, <<c>>)
       \/ \E p \in SmallInequalities, scalar \in Arguments,
               c \in MultiplicationConclusions :
            cp_step = ProofStep("cp_multiplication", <<Premise(p)>>,
                                <<TermArg(IntTerm(scalar))>>, <<c>>)
       \/ \E p \in SignedInequalities, divisor \in Arguments, c \in SignedInequalities :
            cp_step = ProofStep("cp_division", <<Premise(p)>>,
                                <<TermArg(IntTerm(divisor))>>, <<c>>)
       \/ \E p \in SignedInequalities, c \in SignedInequalities :
            cp_step = ProofStep("cp_saturation", <<Premise(p)>>, <<>>, <<c>>)
       \/ cp_step \in OddSteps
       \/ cp_step \in LooseSteps
       \/ \E p \in RepeatedInequalities, c \in AdditionConclusions :
            \E q \in {p, OneX1} :
                cp_step = ProofStep("cp_addition", <<Premise(p), Premise(q)>>, <<>>, <<c>>)
       \/ \E p \in RepeatedInequalities, scalar \in 1..MaxCoef,
               c \in AdditionConclusions :
            cp_step = ProofStep("cp_multiplication", <<Premise(p)>>,
                                <<TermArg(IntTerm(scalar))>>, <<c>>)
       \/ \E p \in SmallInequalities, scalar \in 1..MaxCoef,
               c \in RepeatedInequalities :
            cp_step = ProofStep("cp_multiplication", <<Premise(p)>>,
                                <<TermArg(IntTerm(scalar))>>, <<c>>)
       \/ \E p \in RepeatedInequalities, divisor \in 1..MaxCoef,
               c \in SmallInequalities :
            cp_step = ProofStep("cp_division", <<Premise(p)>>,
                                <<TermArg(IntTerm(divisor))>>, <<c>>)
       \/ \E p \in RepeatedInequalities, c \in SmallInequalities :
            cp_step = ProofStep("cp_saturation", <<Premise(p)>>, <<>>, <<c>>)
    /\ cp_result = "none"
    /\ anchors = <<>> /\ built = <<>>
    /\ proof = <<>> /\ config = <<>> /\ context = <<>> /\ commands_stack = <<>>
    /\ result = <<>> /\ rule_args = <<>> /\ premises_read = <<>> /\ visited = <<>>
    /\ checks = 0 /\ step_calls = <<>>
    /\ pool = <<>> /\ handles = <<>>
    /\ printer_proof = <<>> /\ printer_stack = <<>> /\ written = <<>> /\ returned = FALSE

\* the RuleArgs check_step makes of the step
CpRuleArgs == [premises |-> cp_step.premises, args |-> cp_step.args,
               conclusion |-> cp_step.conclusion]

CpAddition ==
    /\ cp_result = "none"
    /\ cp_step.rule = "cp_addition"
    /\ cp_result' \in cp_addition(CpRuleArgs)
    /\ UNCHANGED <<cp_step, walker_vars, context_vars, pool_vars, printer_vars>>

CpMultiplication ==
    /\ cp_result = "none"
    /\ cp_step.rule = "cp_multiplication"
    /\ cp_result' \in cp_multiplication(CpRuleArgs)
    /\ UNCHANGED <<cp_step, walker_vars, context_vars, pool_vars, printer_vars>>

CpDivision ==
    /\ cp_result = "none"
    /\ cp_step.rule = "cp_division"
    /\ cp_result' \in cp_division(CpRuleArgs)
    /\ UNCHANGED <<cp_step, walker_vars, context_vars, pool_vars, printer_vars>>

CpSaturation ==
    /\ cp_result = "none"
    /\ cp_step.rule = "cp_saturation"
    /\ cp_result' \in cp_saturation(CpRuleArgs)
    /\ UNCHANGED <<cp_step, walker_vars, context_vars, pool_vars, printer_vars>>

CpNext == CpAddition \/ CpMultiplication \/ CpDivision \/ CpSaturation

CpSpec == CpInit /\ [][CpNext]_vars

(***************************************************************************)
(* What the rules are to decide, read off the terms of the step.            *)
(***************************************************************************)
\* the summands (* c l) of an inequality, its literals, the coefficient of
\* one of them and its constant
SummandsOf(inequality) ==
    LET sum == inequality.args[1].args IN SubSeq(sum, 1, Len(sum) - 1)
LiteralsOf(inequality) ==
    {SummandsOf(inequality)[i].args[2].name : i \in 1..Len(SummandsOf(inequality))}
CoefficientOf(inequality, literal) ==
    LET i == CHOOSE j \in 1..Len(SummandsOf(inequality)) :
                SummandsOf(inequality)[j].args[2].name = literal
    IN  SummandsOf(inequality)[i].args[1].value
ConstantOf(inequality) == inequality.args[2].value

\* the inequality with its summands in the opposite order, the 0 still last
Reversed(inequality) ==
    LET summands == SummandsOf(inequality)
        n == Len(summands)
    IN  App(">=", <<App("+", [i \in 1..n |-> summands[n + 1 - i]] \o <<IntTerm(0)>>),
                    inequality.args[2]>>)

\* the step has the premises, terms and integer argument the rule asks for
\* the term is (>= (+ (* c1 l1) ... (* ck lk) 0) K) with integers ci and K
IsProduct(term) ==
    /\ term.kind = "app" /\ term.op = "*" /\ Len(term.args) = 2
    /\ term.args[1].kind = "int"
    /\ term.args[2].kind = "sym"
IsPseudoBoolean(term) ==
    /\ term.kind = "app" /\ term.op = ">=" /\ Len(term.args) = 2
    /\ term.args[2].kind = "int"
    /\ term.args[1].kind = "app" /\ term.args[1].op = "+"
    /\ LET sum == term.args[1].args IN
        /\ Len(sum) >= 1
        /\ sum[Len(sum)] = IntTerm(0)
        /\ \A i \in 1..(Len(sum) - 1) : IsProduct(sum[i])

\* no literal is in two summands of the sum
DuplicateFree(term) ==
    LET sum == term.args[1].args
    IN  \A i, j \in 1..(Len(sum) - 1) : sum[i].args[2] = sum[j].args[2] => i = j

\* the step has the premises, terms and integer argument the rule asks for,
\* each literal once in a sum
HasShape(step, num_premises, num_args) ==
    /\ Len(step.premises) = num_premises
    /\ \A i \in 1..num_premises :
            /\ Len(step.premises[i].clause) = 1
            /\ IsPseudoBoolean(step.premises[i].clause[1])
            /\ DuplicateFree(step.premises[i].clause[1])
    /\ Len(step.args) = num_args
    /\ \A i \in 1..num_args : step.args[i].term.kind = "int"
    /\ Len(step.conclusion) = 1
    /\ IsPseudoBoolean(step.conclusion[1])
    /\ DuplicateFree(step.conclusion[1])

Ran(rule) == cp_step.rule = rule /\ cp_result # "none"

\* C16: cp_multiplication accepts iff the constant and every coefficient of
\* the conclusion are s times those of the premise and both have the same
\* literals; the premise multiplied by s is accepted.
MultiplicationAcceptsProduct ==
    (Ran("cp_multiplication") /\ HasShape(cp_step, 1, 1)) =>
        LET p == cp_step.premises[1].clause[1]
            c == cp_step.conclusion[1]
            s == cp_step.args[1].term.value
            product == Inequality([l \in LiteralsOf(p) |-> s * CoefficientOf(p, l)],
                                  s * ConstantOf(p))
        IN  /\ cp_result = "Ok" <=>
                    /\ ConstantOf(c) = s * ConstantOf(p)
                    /\ LiteralsOf(c) = LiteralsOf(p)
                    /\ \A l \in LiteralsOf(p) :
                            CoefficientOf(c, l) = s * CoefficientOf(p, l)
            /\ cp_multiplication([CpRuleArgs EXCEPT !.conclusion = <<product>>]) = {"Ok"}

MultiplicationAcceptsProductWitness ==
    /\ Ran("cp_multiplication")
    /\ HasShape(cp_step, 1, 1)
    /\ cp_result = "Ok"
    /\ cp_step.args[1].term.value = 2
    /\ LiteralsOf(cp_step.premises[1].clause[1]) = {"x1", "x2"}
    /\ CoefficientOf(cp_step.conclusion[1], "x1") = 4

Ceiling(x, d) == -((-x) \div d)

\* C18: with a divisor d >= 1 cp_division accepts only a conclusion whose
\* constant, and whose coefficient of every literal it shares with the
\* premise, is the ceiling of that of the premise divided by d, the value
\* (x + d - 1) div d being that ceiling for every integer x.
DivisionTakesCeiling ==
    (/\ Ran("cp_division")
     /\ HasShape(cp_step, 1, 1)
     /\ cp_step.args[1].term.value >= 1) =>
        LET p == cp_step.premises[1].clause[1]
            c == cp_step.conclusion[1]
            d == cp_step.args[1].term.value
        IN  /\ IntegerDiv(ConstantOf(p) + d - 1, d) = Ceiling(ConstantOf(p), d)
            /\ cp_result = "Ok" =>
                    /\ ConstantOf(c) = Ceiling(ConstantOf(p), d)
                    /\ \A l \in LiteralsOf(p) \cap LiteralsOf(c) :
                            CoefficientOf(c, l) = Ceiling(CoefficientOf(p, l), d)

\* C19: with a divisor d >= 1 cp_division returns an error for every
\* conclusion with a literal the premise does not have.
DivisionRejectsNewLiterals ==
    (/\ Ran("cp_division")
     /\ HasShape(cp_step, 1, 1)
     /\ cp_step.args[1].term.value >= 1
     /\ ~(LiteralsOf(cp_step.conclusion[1])
            \subseteq LiteralsOf(cp_step.premises[1].clause[1]))) =>
        cp_result # "Ok"

\* C20: cp_division accepts only a step with one premise and one argument
\* that is a positive integer, and returns an error, without a crash, when
\* the argument is zero or negative.
DivisionNeedsPositiveDivisor ==
    Ran("cp_division") =>
        /\ cp_result = "Ok" =>
                /\ Len(cp_step.premises) = 1
                /\ Len(cp_step.args) = 1
                /\ cp_step.args[1].term.kind = "int"
                /\ cp_step.args[1].term.value >= 1
        /\ (HasShape(cp_step, 1, 1) /\ cp_step.args[1].term.value <= 0) =>
                cp_result \notin {"Ok", "panic"}

\* C21: cp_saturation accepts iff the conclusion has the constant and the
\* literals of the premise and each coefficient is the smaller of the
\* constant and the coefficient of the premise.
SaturationAcceptsMin ==
    (Ran("cp_saturation") /\ HasShape(cp_step, 1, 0)) =>
        LET p == cp_step.premises[1].clause[1]
            c == cp_step.conclusion[1]
        IN  cp_result = "Ok" <=>
                /\ ConstantOf(c) = ConstantOf(p)
                /\ LiteralsOf(c) = LiteralsOf(p)
                /\ \A l \in LiteralsOf(p) :
                        CoefficientOf(c, l) = Min(ConstantOf(p), CoefficientOf(p, l))

SaturationAcceptsMinWitness ==
    /\ Ran("cp_saturation")
    /\ HasShape(cp_step, 1, 0)
    /\ cp_result = "Ok"
    /\ LiteralsOf(cp_step.premises[1].clause[1]) = {"x1", "x2"}
    /\ CoefficientOf(cp_step.premises[1].clause[1], "x1") = 2
    /\ CoefficientOf(cp_step.conclusion[1], "x1") = 1

\* the premises and the arguments a rule asks for
NumPremises(rule) == IF rule = "cp_addition" THEN 2 ELSE 1
NumArgs(rule) == IF rule \in {"cp_multiplication", "cp_division"} THEN 1 ELSE 0

\* the step has as many premises and integer arguments as its rule asks for
RightCounts(step) ==
    /\ Len(step.premises) = NumPremises(step.rule)
    /\ Len(step.args) = NumArgs(step.rule)
    /\ \A i \in 1..Len(step.args) : step.args[i].term.kind = "int"

\* C22: each of the four rules returns WrongLengthOfClause for a step whose
\* conclusion, or one of whose premises, is a clause of no term or of more
\* than one.
ClauseLengthsChecked ==
    (/\ cp_result # "none"
     /\ RightCounts(cp_step)
     /\ \/ Len(cp_step.conclusion) # 1
        \/ \E i \in 1..Len(cp_step.premises) : Len(cp_step.premises[i].clause) # 1) =>
        cp_result = "WrongLengthOfClause"

Doubled(inequality) ==
    Inequality([l \in LiteralsOf(inequality) |-> 2 * CoefficientOf(inequality, l)],
               2 * ConstantOf(inequality))

AdditionOfTwice(p, c) ==
    cp_addition([premises |-> <<Premise(p), Premise(p)>>, args |-> <<>>,
                 conclusion |-> <<c>>])
MultiplicationByTwo(p, c) ==
    cp_multiplication([premises |-> <<Premise(p)>>, args |-> <<TermArg(IntTerm(2))>>,
                       conclusion |-> <<c>>])

\* C24: cp_addition of a premise with itself and cp_multiplication of it by 2
\* accept the same conclusions, the doubled premise among them.
AdditionOfTwiceIsDoubling ==
    /\ (/\ Ran("cp_multiplication") /\ HasShape(cp_step, 1, 1)
        /\ cp_step.args[1].term.value = 2) =>
            LET p == cp_step.premises[1].clause[1] IN
            /\ cp_result = "Ok" <=> "Ok" \in AdditionOfTwice(p, cp_step.conclusion[1])
            /\ AdditionOfTwice(p, Doubled(p)) = {"Ok"}
            /\ MultiplicationByTwo(p, Doubled(p)) = {"Ok"}
    /\ (/\ Ran("cp_addition") /\ HasShape(cp_step, 2, 0)
        /\ cp_step.premises[1] = cp_step.premises[2]) =>
            LET p == cp_step.premises[1].clause[1] IN
            /\ cp_result = "Ok" <=> "Ok" \in MultiplicationByTwo(p, cp_step.conclusion[1])
            /\ AdditionOfTwice(p, Doubled(p)) = {"Ok"}
            /\ MultiplicationByTwo(p, Doubled(p)) = {"Ok"}

AdditionOfTwiceIsDoublingWitness ==
    /\ Ran("cp_addition")
    /\ HasShape(cp_step, 2, 0)
    /\ cp_step.premises[1] = cp_step.premises[2]
    /\ LiteralsOf(cp_step.premises[1].clause[1]) = {"x1", "x2"}
    /\ cp_step.conclusion[1] = Doubled(cp_step.premises[1].clause[1])
    /\ cp_result = "Ok"

\* the conclusion cp_saturation is to accept from the inequality
Saturated(inequality) ==
    Inequality([l \in LiteralsOf(inequality) |->
                    Min(ConstantOf(inequality), CoefficientOf(inequality, l))],
               ConstantOf(inequality))

\* C25: the conclusion cp_saturation accepts from a premise is the saturated
\* premise, and from that conclusion cp_saturation accepts the conclusion
\* itself.
SaturationIdempotent ==
    (Ran("cp_saturation") /\ HasShape(cp_step, 1, 0) /\ cp_result = "Ok") =>
        LET s == cp_step.conclusion[1] IN
        /\ s = Saturated(cp_step.premises[1].clause[1])
        /\ Saturated(s) = s
        /\ cp_saturation([premises |-> <<Premise(s)>>, args |-> <<>>,
                          conclusion |-> <<s>>]) = {"Ok"}

SaturationIdempotentWitness ==
    /\ Ran("cp_saturation")
    /\ HasShape(cp_step, 1, 0)
    /\ cp_result = "Ok"
    /\ cp_step.conclusion[1] # cp_step.premises[1].clause[1]
    /\ LiteralsOf(cp_step.conclusion[1]) = {"x1", "x2"}
    /\ CoefficientOf(cp_step.premises[1].clause[1], "x1") = 2
    /\ ConstantOf(cp_step.conclusion[1]) = 1

\* C26: cp_division with divisor 1 accepts the premise itself as conclusion.
DivisionByOneKeeps ==
    (Ran("cp_division") /\ HasShape(cp_step, 1, 1)) =>
        LET p == cp_step.premises[1].clause[1] IN
        /\ cp_division([premises |-> <<Premise(p)>>, args |-> <<TermArg(IntTerm(1))>>,
                        conclusion |-> <<p>>]) = {"Ok"}
        /\ (cp_step.args[1].term.value = 1 /\ cp_step.conclusion[1] = p) =>
                cp_result = "Ok"

DivisionByOneKeepsWitness ==
    /\ Ran("cp_division")
    /\ HasShape(cp_step, 1, 1)
    /\ cp_step.args[1].term.value = 1
    /\ cp_step.conclusion[1] = cp_step.premises[1].clause[1]
    /\ LiteralsOf(cp_step.conclusion[1]) = {"x1", "x2"}
    /\ CoefficientOf(cp_step.conclusion[1], "x1") = -2
    /\ ConstantOf(cp_step.conclusion[1]) = -1
    /\ cp_result = "Ok"

\* the terms of the clauses of the step
InequalitiesOf(step) ==
    {step.conclusion[i] : i \in 1..Len(step.conclusion)}
        \cup UNION {{step.premises[k].clause[i] : i \in 1..Len(step.premises[k].clause)} :
                        k \in 1..Len(step.premises)}

OneTermClauses(step) ==
    /\ Len(step.conclusion) = 1
    /\ \A k \in 1..Len(step.premises) : Len(step.premises[k].clause) = 1

\* C27: a term is parsed iff it is (>= (+ s1 ... sk 0) K) with every si a
\* product (* c l) of an integer and K an integer, to the map of the l to the
\* c and K; a step with a term of another shape, a last summand that is not 0
\* included, gets a shape error.
ParsingIsStrict ==
    (cp_result # "none" /\ RightCounts(cp_step) /\ OneTermClauses(cp_step)) =>
        /\ \A t \in InequalitiesOf(cp_step) :
                IF IsPseudoBoolean(t)
                THEN DuplicateFree(t) =>
                        unwrap_pseudoboolean_inequality(t) =
                            Good([pbsum |-> [l \in LiteralsOf(t) |-> CoefficientOf(t, l)],
                                  constant |-> ConstantOf(t)])
                ELSE ~unwrap_pseudoboolean_inequality(t).ok
        /\ (\E t \in InequalitiesOf(cp_step) : ~IsPseudoBoolean(t)) =>
                cp_result \in {"CouldNotMatch", "ExpectedInteger"}

\* C28: no rule panics.
RulesAreTotal == cp_result # "panic"

(***************************************************************************)
(* The term pool alone: add_term, the `intern` of the pool's contract.  A   *)
(* stored term refers to its arguments by handle; a handle is the position *)
(* of the term in the storage.                                             *)
(***************************************************************************)
\* the largest number of calls of add_term
MaxInterned == 4

\* Term::Terminal and Term::Op, the arguments being handles
Terminal(literal) == [variant |-> "Terminal", literal |-> literal]
Op(operator, args) == [variant |-> "Op", operator |-> operator, args |-> args]

\* the handle of the stored term equal to term: same variant, same literal,
\* same handles of the arguments in the same order
Lookup(storage, term) ==
    IF \E h \in 1..Len(storage) : storage[h] = term
    THEN Some(CHOOSE h \in 1..Len(storage) : storage[h] = term)
    ELSE None

\* a mutant of add_term: the term is stored without looking it up
add_termAlwaysStored(storage, term) ==
    [pool |-> Append(storage, term), handle |-> Len(storage) + 1]

\* the handle of the stored term if there is one, else the term is stored
\* and its handle is fresh
add_term(storage, term) ==
    IF Lookup(storage, term) # None
    THEN [pool |-> storage, handle |-> Lookup(storage, term)[1]]
    ELSE [pool |-> Append(storage, term), handle |-> Len(storage) + 1]

\* the terms add_term can be given: the integer 0, the variable x, and the
\* operators not and + applied to terms of the pool
PoolLiterals == {"0", "x"}
PoolTerms(storage) ==
    {Terminal(l) : l \in PoolLiterals}
        \cup {Op("not", <<h>>) : h \in 1..Len(storage)}
        \cup {Op("+", <<h, k>>) : h \in 1..Len(storage), k \in 1..Len(storage)}

PoolInit ==
    /\ pool = <<>>
    /\ handles = <<>>
    /\ proof = <<>> /\ config = <<>> /\ context = <<>> /\ commands_stack = <<>>
    /\ result = <<>> /\ rule_args = <<>> /\ premises_read = <<>> /\ visited = <<>>
    /\ checks = 0 /\ step_calls = <<>>
    /\ anchors = <<>> /\ built = <<>>
    /\ cp_step = <<>> /\ cp_result = <<>>
    /\ printer_proof = <<>> /\ printer_stack = <<>> /\ written = <<>> /\ returned = FALSE

AddTerm ==
    /\ Len(handles) < MaxInterned
    /\ \E term \in PoolTerms(pool) :
        LET r == add_term(pool, term)
        IN  /\ pool' = r.pool
            /\ handles' = Append(handles, [term |-> term, handle |-> r.handle])
    /\ UNCHANGED <<walker_vars, context_vars, cp_vars, printer_vars>>

PoolNext == AddTerm

PoolSpec == PoolInit /\ [][PoolNext]_vars

\* the term written out: the handles of the arguments replaced by the terms
\* they stand for
RECURSIVE Unfold(_, _)
Unfold(storage, term) ==
    IF term.variant = "Terminal" THEN <<term.literal>>
    ELSE <<term.operator>>
            \o [i \in 1..Len(term.args) |-> Unfold(storage, storage[term.args[i]])]

StructurallyEqual(storage, t1, t2) == Unfold(storage, t1) = Unfold(storage, t2)

\* C29: two calls of add_term return the same handle iff their terms are
\* structurally equal; a call with a term that is stored leaves the pool as it
\* is, and every stored term stays stored under its handle.
PoolCanonicity ==
    /\ [](\A i, j \in 1..Len(handles) :
            handles[i].handle = handles[j].handle
                <=> StructurallyEqual(pool, handles[i].term, handles[j].term))
    /\ [][/\ IsPrefix(pool, pool')
          /\ LET call == handles'[Len(handles')]
             IN  /\ (\E h \in 1..Len(pool) : StructurallyEqual(pool, pool[h], call.term))
                        => pool' = pool
                 /\ pool'[call.handle] = call.term]_vars

PoolCanonicityWitness ==
    \E i, j, k \in 1..Len(handles) :
        /\ i < j
        /\ handles[i].term = handles[j].term
        /\ handles[j].term.variant = "Op"
        /\ handles[i].handle = handles[j].handle
        /\ handles[k].handle # handles[i].handle
        /\ Len(pool) < Len(handles)

(***************************************************************************)
(* The printer alone: AlethePrinter::write_proof of ast/printer.rs.  A line *)
(* of the output is the index of the step write_step wrote on it, or <<>>  *)
(* for a line with the newline of writeln! alone.                          *)
(***************************************************************************)
\* the largest number of lines of output that is followed
MaxLines == 6

EmptyLine == <<>>

PrinterTop == printer_stack[Len(printer_stack)]
PrinterCursor == PrinterTop[1]
PrinterCommands == PrinterTop[2]
PrinterCurrent == PrinterCommands[PrinterCursor + 1]

\* let mut commands_stack = vec![(0, proof.commands.as_slice())]
PrinterInit ==
    /\ printer_proof \in Proofs
    /\ printer_stack = << <<0, printer_proof.commands>> >>
    /\ written = <<>>
    /\ returned = FALSE
    /\ proof = <<>> /\ config = <<>> /\ context = <<>> /\ commands_stack = <<>>
    /\ result = <<>> /\ rule_args = <<>> /\ premises_read = <<>> /\ visited = <<>>
    /\ checks = 0 /\ step_calls = <<>>
    /\ anchors = <<>> /\ built = <<>>
    /\ cp_step = <<>> /\ cp_result = <<>>
    /\ pool = <<>> /\ handles = <<>>

\* i == commands.len(): pop and continue; the loop ends and write_proof
\* returns Ok(()) when the stack is empty
PrinterEndOfCommands ==
    /\ ~returned
    /\ PrinterCursor = Len(PrinterCommands)
    /\ printer_stack' = PopFrame(printer_stack)
    /\ returned' = (Len(printer_stack) = 1)
    /\ UNCHANGED <<printer_proof, written>>
    /\ UNCHANGED <<walker_vars, context_vars, cp_vars, pool_vars>>

\* ProofCommand::Assume { .. }: nothing is printed; writeln!, cursor += 1
PrinterAssume ==
    /\ ~returned
    /\ PrinterCursor < Len(PrinterCommands)
    /\ PrinterCurrent.kind = "Assume"
    /\ Len(written) < MaxLines
    /\ written' = Append(written, EmptyLine)
    /\ printer_stack' = Advance(printer_stack)
    /\ UNCHANGED <<printer_proof, returned>>
    /\ UNCHANGED <<walker_vars, context_vars, cp_vars, pool_vars>>

\* ProofCommand::Step(s): write_step; writeln!, cursor += 1
PrinterStep ==
    /\ ~returned
    /\ PrinterCursor < Len(PrinterCommands)
    /\ PrinterCurrent.kind = "Step"
    /\ Len(written) < MaxLines
    /\ written' = Append(written, PrinterCurrent.index)
    /\ printer_stack' = Advance(printer_stack)
    /\ UNCHANGED <<printer_proof, returned>>
    /\ UNCHANGED <<walker_vars, context_vars, cp_vars, pool_vars>>

\* ProofCommand::Subproof { commands: inner_commands, .. }: the frame
\* (0, inner_commands) is pushed; writeln!, and the cursor of the frame that
\* is now the last one += 1
PrinterSubproof ==
    /\ ~returned
    /\ PrinterCursor < Len(PrinterCommands)
    /\ PrinterCurrent.kind = "Subproof"
    /\ Len(written) < MaxLines
    /\ written' = Append(written, EmptyLine)
    /\ printer_stack' =
            Advance(Append(printer_stack, NewFrame(PrinterCurrent.commands)))
    /\ UNCHANGED <<printer_proof, returned>>
    /\ UNCHANGED <<walker_vars, context_vars, cp_vars, pool_vars>>

PrinterNext ==
    \/ PrinterEndOfCommands
    \/ PrinterAssume
    \/ PrinterStep
    \/ PrinterSubproof

PrinterSpec == PrinterInit /\ [][PrinterNext]_vars

\* the indices of the steps of a command list in source order, the steps of
\* its subproofs included
StepsOf(commands) ==
    LET steps == SelectSeq(Preorder(commands), LAMBDA c : c.kind = "Step")
    IN  [k \in 1..Len(steps) |-> steps[k].index]

WrittenSteps == SelectSeq(written, LAMBDA line : line # EmptyLine)

\* C30: write_proof writes the steps of the proof, those of its subproofs
\* included, once each and in source order: what is written so far is the
\* beginning of the list of the steps and, once write_proof has returned, all
\* of it; it terminates, no line being written but for a command not yet
\* reached.
PrinterWritesEveryStepOnce ==
    /\ IsPrefix(WrittenSteps, StepsOf(printer_proof.commands))
    /\ returned => WrittenSteps = StepsOf(printer_proof.commands)
    /\ Len(written) <= Len(Preorder(printer_proof.commands))

(***************************************************************************)
(* Further properties of the walker.                                       *)
(***************************************************************************)
\* C31: in every state of check the cursor of every frame is at most the
\* length of its slice, and the command at the cursor of every frame but the
\* top one is a Subproof whose commands are the slice of the frame above it.
ParentCursorsRest ==
    \A k \in 1..Len(commands_stack) :
        /\ commands_stack[k][1] <= Len(commands_stack[k][2])
        /\ k < Len(commands_stack) =>
                /\ commands_stack[k][1] < Len(commands_stack[k][2])
                /\ commands_stack[k][2][commands_stack[k][1] + 1].kind = "Subproof"
                /\ commands_stack[k][2][commands_stack[k][1] + 1].commands
                        = commands_stack[k + 1][2]

ParentCursorsRestWitness ==
    /\ result = Running
    /\ Len(commands_stack) = 2
    /\ commands_stack[1][1] = 1
    /\ Cursor = 1

\* the last command matched is the closing step of a subproof and its rule
\* is in no table
ClosedByUnknownRule ==
    /\ visited # <<>>
    /\ LastNode.kind = "Step"
    /\ IsClosingPath(LastVisited)
    /\ LastNode.rule \notin RuleTable

\* C32: with skip_unknown_rules, once the closing step of a subproof whose
\* rule is in no table has been matched, no rule was called for it, check has
\* not failed, the frame and the context of the subproof are gone, and the
\* cursor of the parent frame is at the command after the Subproof.
SkippedClosingStepCloses ==
    (ClosedByUnknownRule /\ config.skip_unknown_rules) =>
        /\ result.status # "Err"
        /\ rule_args # None => rule_args.step # LastVisited
        /\ Len(commands_stack) = Len(LastVisited) - 1
        /\ Len(context) = Len(LastVisited) - 2
        /\ Commands = ListAt(proof.commands, ScopeOf(ScopeOf(LastVisited)))
        /\ Commands[Cursor].kind = "Subproof"
        /\ Commands[Cursor].commands = ListAt(proof.commands, ScopeOf(LastVisited))

SkippedClosingStepClosesWitness ==
    /\ ClosedByUnknownRule
    /\ config.skip_unknown_rules
    /\ ~config.is_running_test
    /\ result = Running
    /\ Len(commands_stack) = 1
    /\ Cursor < Len(Commands)
    /\ Current.kind = "Step"

(***************************************************************************)
(* A ProofChecker that is given its proof again: check is called on the    *)
(* checker once the call before it has returned.                           *)
(***************************************************************************)
\* the largest number of calls of check on one ProofChecker
MaxChecks == 2

\* a mutant of ContextAtCall: the contexts left by the call before are dropped
ContextCleared(ctx) == <<>>

\* self.context when check is entered: check leaves the field as it finds it
ContextAtCall(ctx) == ctx

\* check(&mut self, proof) is entered again: a new commands_stack, the fields
\* of self as the call before left them
CheckAgain ==
    /\ result.status \in {"Ok", "Err"}
    /\ checks < MaxChecks
    /\ checks' = checks + 1
    /\ commands_stack' = << NewFrame(proof.commands) >>
    /\ context' = ContextAtCall(context)
    /\ result' = Running
    /\ rule_args' = None
    /\ premises_read' = <<>>
    /\ visited' = <<>>
    /\ step_calls' = <<>>
    /\ UNCHANGED <<proof, config>>
    /\ UNCHANGED <<context_vars, cp_vars, pool_vars, printer_vars>>

RecheckNext == Next \/ CheckAgain

RecheckSpec == Init /\ [][RecheckNext]_vars

\* C33: the first call of check on a ProofChecker leaves no context when it
\* returns Ok and, when it returns an error raised d subproofs deep, the d
\* contexts of these subproofs; the next call then starts with one frame and
\* these d contexts.
ContextsLeftByCheck ==
    /\ []((checks = 1 /\ result = Ok) => context = <<>>)
    /\ []((checks = 1 /\ result.status = "Err") =>
            /\ Len(context) = NestingDepth
            /\ context = EnclosingContexts(CurrentScope))
    /\ [][(checks = 1 /\ checks' = 2) =>
            /\ Len(commands_stack') = 1
            /\ commands_stack'[1] = <<0, proof.commands>>
            /\ context' = IF result.status = "Err"
                          THEN EnclosingContexts(CurrentScope) ELSE <<>>]_vars

ContextsLeftByCheckWitness ==
    /\ checks = 2
    /\ visited = <<>>
    /\ Len(commands_stack) = 1
    /\ Len(context) = 2

(***************************************************************************)
(* A literal in several summands of one sum.                               *)
(***************************************************************************)
\* the summands without those whose literal is in a later summand
RECURSIVE LastOccurrences(_)
LastOccurrences(summands) ==
    IF summands = <<>> THEN <<>>
    ELSE (IF \E j \in 2..Len(summands) : summands[j].args[2] = summands[1].args[2]
          THEN <<>> ELSE <<summands[1]>>)
            \o LastOccurrences(Tail(summands))

WithoutEarlier(inequality) ==
    App(">=", <<App("+", LastOccurrences(SummandsOf(inequality)) \o <<IntTerm(0)>>),
                inequality.args[2]>>)

\* the RuleArgs of the step with every sum without its earlier summands
ArgsWithoutEarlier(step) ==
    [premises |-> [i \in 1..Len(step.premises) |->
                        Premise(WithoutEarlier(step.premises[i].clause[1]))],
     args |-> step.args,
     conclusion |-> <<WithoutEarlier(step.conclusion[1])>>]

RuleOf(rule, args) ==
    CASE rule = "cp_addition" -> cp_addition(args)
      [] rule = "cp_multiplication" -> cp_multiplication(args)
      [] rule = "cp_division" -> cp_division(args)
      [] rule = "cp_saturation" -> cp_saturation(args)

\* the step has the counts of its rule, clauses of one term and sums of the
\* right shape, a literal being in two summands of one of them
HasRepeatedLiteral(step) ==
    /\ RightCounts(step)
    /\ OneTermClauses(step)
    /\ \A t \in InequalitiesOf(step) : IsPseudoBoolean(t)
    /\ \E t \in InequalitiesOf(step) : ~DuplicateFree(t)

\* C34: a sum with a literal in several summands is parsed to the map that
\* gives the literal the coefficient of its last summand, and a rule returns
\* for the step what it returns for the step without the earlier summands.
RepeatedLiteralKeepsLast ==
    (cp_result # "none" /\ HasRepeatedLiteral(cp_step)) =>
        /\ \A t \in InequalitiesOf(cp_step) :
                unwrap_pseudoboolean_inequality(t) =
                    Good([pbsum |-> [l \in LiteralsOf(WithoutEarlier(t)) |->
                                        CoefficientOf(WithoutEarlier(t), l)],
                          constant |-> ConstantOf(t)])
        /\ RuleOf(cp_step.rule, CpRuleArgs)
                = RuleOf(cp_step.rule, ArgsWithoutEarlier(cp_step))
        /\ cp_result \in RuleOf(cp_step.rule, ArgsWithoutEarlier(cp_step))

RepeatedLiteralKeepsLastWitness ==
    /\ cp_step = ProofStep("cp_multiplication",
                           <<Premise(RepeatedInequality(1, 2, FALSE, 1))>>,
                           <<TermArg(IntTerm(2))>>,
                           <<Inequality([l \in {"x1"} |-> 4], 2)>>)
    /\ cp_result = "Ok"

(***************************************************************************)
(* The recursive walker of the earlier checker: ProofChecker::check,        *)
(* check_subproof and check_step of src/checker/mod.rs.  The state that the *)
(* recursion threads is the status of the check so far ("Ok" while no call  *)
(* of check_step has failed), the depth of self.context and the calls of    *)
(* check_step made.                                                        *)
(***************************************************************************)
\* get_rule(rule_name, allow_test_rule): Some iff the name is in the table
old_get_rule(rule_name, allow_test_rule) ==
    \/ rule_name = "resolution"
    \/ rule_name = "trust_me" /\ allow_test_rule

\* the rule function applied to the step: "trust_me" is |_| Some(())
old_Rule(rule_name, step) == rule_name = "trust_me" \/ step.holds

\* check_step(step, all_commands, subproof_commands)
old_check_step(step, subproof_commands, cfg, st) ==
    [status |-> IF ~old_get_rule(step.rule, cfg.allow_test_rule)
                THEN (IF cfg.skip_unknown_rules THEN "Ok" ELSE "UnknownRule")
                ELSE IF old_Rule(step.rule, step) THEN "Ok" ELSE "FailedOnRule",
     depth |-> st.depth,
     calls |-> Append(st.calls, [step |-> step.index,
                                 depth |-> st.depth,
                                 subproof_commands |-> subproof_commands])]

\* check_subproof(commands), from the k-th command of the slice on
RECURSIVE check_subproof(_, _, _, _)
check_subproof(commands, k, cfg, st) ==
    IF st.status # "Ok" \/ k > Len(commands) THEN st
    ELSE LET c == commands[k]
         IN  CASE c.kind = "Step" ->
                    check_subproof(commands, k + 1, cfg, old_check_step(c, None, cfg, st))
               [] c.kind = "Subproof" ->
                    LET pushed == [st EXCEPT !.depth = @ + 1]
                        inner == check_subproof(SubSeq(c.commands, 1, Len(c.commands) - 1),
                                                1, cfg, pushed)
                        last_step == c.commands[Len(c.commands)]
                    IN  IF inner.status # "Ok" THEN inner
                        ELSE IF last_step.kind # "Step"
                        THEN [inner EXCEPT !.status = "panic"]
                        ELSE LET closed == old_check_step(last_step, Some(c.commands),
                                                          cfg, inner)
                             IN  IF closed.status # "Ok" THEN closed
                                 ELSE check_subproof(commands, k + 1, cfg,
                                                     [closed EXCEPT !.depth = @ - 1])
               [] c.kind = "Assume" -> check_subproof(commands, k + 1, cfg, st)

\* ProofChecker::new and check(proof)
old_check(commands, cfg) ==
    check_subproof(commands, 1, cfg, [status |-> "Ok", depth |-> 0, calls |-> <<>>])

\* the configurations of the earlier checker with the skip_unknown_rules of
\* this one
OldConfigs ==
    {[skip_unknown_rules |-> config.skip_unknown_rules, allow_test_rule |-> allow] :
        allow \in BOOLEAN}

\* the walker makes the calls of check_step that the recursive one makes
SameCalls(old) ==
    /\ IsPrefix(step_calls, old.calls)
    /\ result # Running => step_calls = old.calls
    /\ result = Ok => context = <<>>
    /\ old.status = "Ok" => old.depth = 0

\* C35 as stated: on every proof check makes the calls of check_step that
\* check_subproof makes, in the same order, at the same depth of the context
\* stack and with the same subproof_commands, and both end with no context
\* when they succeed.
RefinesRecursive == \A cfg \in OldConfigs : SameCalls(old_check(proof.commands, cfg))

\* no assume of the root list is rejected by check
RootAssumesPass ==
    \A i \in 1..Len(proof.commands) :
        proof.commands[i].kind = "Assume" =>
            \/ config.is_running_test
            \/ IsValidAssume(proof.commands[i].term, proof.premises)

\* the two checkers accept the same steps of the proof
SameVerdicts(cfg) ==
    LET walk == Walk IN
    \A k \in 1..Len(walk) :
        walk[k].kind = "Step" =>
            (~Fails(walk[k])
                <=> old_check_step(walk[k], None, cfg,
                                   [status |-> "Ok", depth |-> 0, calls |-> <<>>]).status
                        = "Ok")

\* C35: on every proof none of whose root assumes check rejects and whose
\* steps the two checkers accept alike, check makes the calls of check_step
\* that check_subproof makes, in the same order, at the same depth of the
\* context stack and with the same subproof_commands, and both end with no
\* context when they succeed.
RefinesRecursiveOnAgreement ==
    \A cfg \in OldConfigs :
        (RootAssumesPass /\ SameVerdicts(cfg)) =>
            SameCalls(old_check(proof.commands, cfg))

RefinesRecursiveOnAgreementWitness ==
    /\ result = Ok
    /\ RootAssumesPass
    /\ \A cfg \in OldConfigs : SameVerdicts(cfg)
    /\ Len(step_calls) = 3
    /\ step_calls[1].depth = 1
    /\ step_calls[1].subproof_commands = None
    /\ step_calls[2].depth = 1
    /\ step_calls[2].subproof_commands # None
    /\ step_calls[3].depth = 0

====
